---- MODULE Spec2Model ----
(***************************************************************************)
(* Log ingestion and normalisation engine of agent-vis: the per-source     *)
(* parsers, the token accumulator, the deduplicator, the mtime-validated   *)
(* session cache (parseSessionFile) and the incremental tail resolver      *)
(* (the session-poll route, called pollFromOffset here).                   *)
(***************************************************************************)
EXTENDS Integers, Sequences, FiniteSets, TLC

(***************************************************************************)
(* Bounds of the model.                                                    *)
(***************************************************************************)
\* most lines the producers append while the cache is exercised
MaxLines == 2
\* most events arrays parseSessionFile allocates in one behaviour
MaxArrays == 2
\* most lines of the two files that sequential callers parse and poll
MaxSeqLines == 2
\* most lines the producer appends to the file a client tails
MaxTailLines == 3
\* most records handed to parseClaudeEvent with one accumulator
MaxRecords == 3

\* the lines of the file the faulty producers write to
MaxFaultLines == 2

\* the events handed to the Deduplicator
MaxDedupEvents == 3

\* MAX_LINE_CHARS, the ceiling on a line's length, scaled down from 10 * 1024 * 1024
MAX_LINE_CHARS == 2

\* the characters a stream delivers in all
MaxStreamChars == 7

\* the characters a stream delivers when its chunk boundaries are noted
MaxCutChars == 6

\* the characters of one chunk (highWaterMark, scaled down)
MaxChunkChars == 3

(***************************************************************************)
(* Small helpers.                                                          *)
(***************************************************************************)
Min(a, b) == IF a <= b THEN a ELSE b

Abs(a) == IF a < 0 THEN 0 - a ELSE a

\* s.slice(from0, to0) of JavaScript on a sequence (0-based, end exclusive)
Slice(s, from0, to0) == SubSeq(s, from0 + 1, Min(to0, Len(s)))

\* a plausible slip: the slice is forgotten and every line is taken
SliceFrom_WholeFile(s, offset) == s

\* lines.slice(offset)
SliceFrom(s, offset) == SubSeq(s, offset + 1, Len(s))

\* a.startsWith(b)
StartsWith(a, b) == Len(b) <= Len(a) /\ SubSeq(a, 1, Len(b)) = b

RECURSIVE Flatten(_)
Flatten(ss) == IF ss = <<>> THEN <<>> ELSE Head(ss) \o Flatten(Tail(ss))

(***************************************************************************)
(* Timestamps.  ts is an ISO string or absent; new Date(ts).getTime() is a *)
(* number of milliseconds, or NaN for an absent or unparsable ts.          *)
(***************************************************************************)
NaT == -1

\* a plausible slip: the search is for a marker no text contains
HasToken_Never(text, tok) == FALSE

\* Math.abs(t1 - t2) > w, which is false whenever a side is NaN
FartherThan(t1, t2, w) == t1 # NaT /\ t2 # NaT /\ Abs(t1 - t2) > w

(***************************************************************************)
(* Texts are sequences of tokens.  "IMG" stands for one                    *)
(* <image name=...></image> placeholder, "<system-reminder>" and           *)
(* "<task-notification>" for these tags, " " for white space, any other    *)
(* token for an ordinary character.                                        *)
(***************************************************************************)
HasToken(text, tok) == \E i \in 1..Len(text) : text[i] = tok

\* text.trim() is non-empty
NonBlank(text) == \E i \in 1..Len(text) : text[i] # " "

(***************************************************************************)
(* Token accumulator (claude-parser.ts).                                   *)
(***************************************************************************)
\* a usage block; an absent field reads as undefined, and (undefined || 0) is 0
Usage(i, o, cr, cc) ==
  [present |-> TRUE, input_tokens |-> i, output_tokens |-> o,
   cache_read_input_tokens |-> cr, cache_creation_input_tokens |-> cc]

NoUsage ==
  [present |-> FALSE, input_tokens |-> 0, output_tokens |-> 0,
   cache_read_input_tokens |-> 0, cache_creation_input_tokens |-> 0]

\* a mutant of createTokenAccumulator is defined once the state is declared
ZeroAccumulator == [input |-> 0, output |-> 0, cacheRead |-> 0, cacheCreate |-> 0]

\* a plausible slip: = for +=, the accumulator holds the latest record only
AddUsage_LatestOnly(tokenAccum, usage) ==
  [input |-> usage.input_tokens,
   output |-> usage.output_tokens,
   cacheRead |-> usage.cache_read_input_tokens,
   cacheCreate |-> usage.cache_creation_input_tokens]

\* tokenAccum.x += usage.x || 0, four times
AddUsage(tokenAccum, usage) ==
  [input |-> tokenAccum.input + usage.input_tokens,
   output |-> tokenAccum.output + usage.output_tokens,
   cacheRead |-> tokenAccum.cacheRead + usage.cache_read_input_tokens,
   cacheCreate |-> tokenAccum.cacheCreate + usage.cache_creation_input_tokens]

\* a plausible slip: last_input and last_output report the running totals
TokenUsageEvent_LastIsTotal(ts, tokenAccum, usage) ==
  [kind |-> "token_usage", ts |-> ts,
   total_input |-> tokenAccum.input + tokenAccum.cacheRead + tokenAccum.cacheCreate,
   cached_input |-> tokenAccum.cacheRead,
   total_output |-> tokenAccum.output,
   reasoning_output |-> 0,
   total_tokens |-> tokenAccum.input + tokenAccum.output
                    + tokenAccum.cacheRead + tokenAccum.cacheCreate,
   context_window |-> 0,
   last_input |-> tokenAccum.input + tokenAccum.cacheRead + tokenAccum.cacheCreate,
   last_output |-> tokenAccum.output]

\* the token_usage event pushed after the accumulator was advanced
TokenUsageEvent(ts, tokenAccum, usage) ==
  [kind |-> "token_usage", ts |-> ts,
   total_input |-> tokenAccum.input + tokenAccum.cacheRead + tokenAccum.cacheCreate,
   cached_input |-> tokenAccum.cacheRead,
   total_output |-> tokenAccum.output,
   reasoning_output |-> 0,
   total_tokens |-> tokenAccum.input + tokenAccum.output
                    + tokenAccum.cacheRead + tokenAccum.cacheCreate,
   context_window |-> 0,
   last_input |-> usage.input_tokens + usage.cache_read_input_tokens
                  + usage.cache_creation_input_tokens,
   last_output |-> usage.output_tokens]

(***************************************************************************)
(* Claude-Code records.  A decoded record carries type, timestamp,         *)
(* sessionId (truthy or not), the tool-result flag (userType ===           *)
(* "tool_result" || toolUseResult), message.content and message.usage.     *)
(* message.content is a string, an array of blocks, or something else.     *)
(* A block of type "null" is a JSON null in the array: reading its .type   *)
(* throws a TypeError.                                                     *)
(***************************************************************************)
StringContent(text) == [k |-> "string", text |-> text, blocks |-> <<>>]

ArrayContent(blocks) == [k |-> "array", text |-> <<>>, blocks |-> blocks]

NoContent == [k |-> "none", text |-> <<>>, blocks |-> <<>>]

Block(type, text, name, id) == [type |-> type, text |-> text, name |-> name, id |-> id]

ClaudeObj(type, ts, sessionId, flagged, content, usage) ==
  [type |-> type, timestamp |-> ts, sessionId |-> sessionId, flagged |-> flagged,
   content |-> content, usage |-> usage]

\* the result of one parser call: it returned events, or it threw
Returned(events, tokenAccum) == [threw |-> FALSE, events |-> events, accum |-> tokenAccum]

Threw(tokenAccum) == [threw |-> TRUE, events |-> <<>>, accum |-> tokenAccum]

HasNullBlock(blocks) == \E i \in 1..Len(blocks) : blocks[i].type = "null"

\* extractImages: one data URI per image block that carries source.data
extractImages(obj) ==
  IF obj.content.k = "array"
  THEN LET imgs == SelectSeq(obj.content.blocks, LAMBDA b : b.type = "image")
       IN [i \in 1..Len(imgs) |-> <<"data:", imgs[i].id>>]
  ELSE <<>>

\* parseToolResults: one tool_output per tool_result block with non-empty output
parseToolResults(content, ts) ==
  LET res == SelectSeq(content, LAMBDA b : b.type = "tool_result" /\ b.text # <<>>)
  IN [i \in 1..Len(res) |->
        [kind |-> "tool_output", ts |-> ts, output |-> res[i].text, callId |-> res[i].id]]

\* parseToolUse: Edit and Write are file changes, everything else a command
parseToolUse(block, ts) ==
  IF block.name = "Edit"
  THEN [kind |-> "file_change", ts |-> ts, action |-> "update", path |-> block.text,
        callId |-> block.id, toolName |-> "Edit"]
  ELSE IF block.name = "Write"
  THEN [kind |-> "file_change", ts |-> ts, action |-> "add", path |-> block.text,
        callId |-> block.id, toolName |-> "Write"]
  ELSE IF block.name = "Bash"
  THEN [kind |-> "shell_command", ts |-> ts, cmd |-> block.text, callId |-> block.id,
        toolName |-> ""]
  ELSE [kind |-> "shell_command", ts |-> ts, cmd |-> <<block.name>> \o block.text,
        callId |-> block.id, toolName |-> block.name]

\* the events of one content block of an assistant message
AssistantBlockEvents(block, ts) ==
  IF block.type = "thinking" /\ block.text # <<>>
  THEN <<[kind |-> "reasoning", ts |-> ts, text |-> block.text]>>
  ELSE IF block.type = "text" /\ NonBlank(block.text)
  THEN <<[kind |-> "agent_message", ts |-> ts, text |-> block.text]>>
  ELSE IF block.type = "tool_use"
  THEN <<parseToolUse(block, ts)>>
  ELSE <<>>

\* parseAssistantMessage: [] unless content is an array; throws on a null block
parseAssistantMessage(obj, ts) ==
  IF obj.content.k # "array" THEN Returned(<<>>, ZeroAccumulator)
  ELSE IF HasNullBlock(obj.content.blocks) THEN Threw(ZeroAccumulator)
  ELSE Returned(Flatten([i \in 1..Len(obj.content.blocks) |->
                           AssistantBlockEvents(obj.content.blocks[i], ts)]),
                ZeroAccumulator)

\* a plausible slip: only <system-reminder> is looked for
IsScaffolding_ReminderOnly(text) == HasToken(text, "<system-reminder>")

\* text.includes("<task-notification>") || text.includes("<system-reminder>")
IsScaffolding(text) ==
  HasToken(text, "<task-notification>") \/ HasToken(text, "<system-reminder>")

\* the user branch of parseClaudeEvent
ParseClaudeUser(obj, ts, tokenAccum) ==
  IF obj.content.k = "string"
  THEN IF IsScaffolding(obj.content.text) \/ obj.flagged
       THEN Returned(<<>>, tokenAccum)
       ELSE Returned(<<[kind |-> "user_message", ts |-> ts, text |-> obj.content.text,
                        images |-> extractImages(obj)]>>, tokenAccum)
  ELSE IF obj.content.k = "array"
  THEN LET blocks == obj.content.blocks
           texts == SelectSeq(blocks, LAMBDA b : b.type = "text")
           \* textParts.join("\n")
           joined == Flatten([i \in 1..Len(texts) |->
                       IF i = 1 THEN texts[i].text ELSE <<"\n">> \o texts[i].text])
       IN IF HasNullBlock(blocks) THEN Threw(tokenAccum)
          ELSE IF \E i \in 1..Len(blocks) : blocks[i].type = "tool_result"
          THEN Returned(parseToolResults(blocks, ts), tokenAccum)
          ELSE IF Len(texts) > 0 /\ ~IsScaffolding(joined)
          THEN Returned(<<[kind |-> "user_message", ts |-> ts, text |-> joined,
                           images |-> extractImages(obj)]>>, tokenAccum)
          ELSE Returned(<<>>, tokenAccum)
  ELSE Returned(<<>>, tokenAccum)

\* a plausible slip: the event reports the totals from before this record
ParseClaudeAssistant_StaleTotals(obj, ts, tokenAccum) ==
  LET pa == parseAssistantMessage(obj, ts)
      acc == AddUsage(tokenAccum, obj.usage)
  IN IF pa.threw THEN Threw(tokenAccum)
     ELSE IF obj.usage.present
     THEN Returned(Append(pa.events, TokenUsageEvent(ts, tokenAccum, obj.usage)), acc)
     ELSE Returned(pa.events, tokenAccum)

\* a plausible slip: the token_usage event is put in front of the record's events
ParseClaudeAssistant_UsageFirst(obj, ts, tokenAccum) ==
  LET pa == parseAssistantMessage(obj, ts)
      acc == AddUsage(tokenAccum, obj.usage)
  IN IF pa.threw THEN Threw(tokenAccum)
     ELSE IF obj.usage.present
     THEN Returned(<<TokenUsageEvent(ts, acc, obj.usage)>> \o pa.events, acc)
     ELSE Returned(pa.events, tokenAccum)

\* the assistant branch: the blocks' events, then the accumulator and its event
ParseClaudeAssistant(obj, ts, tokenAccum) ==
  LET pa == parseAssistantMessage(obj, ts)
      acc == AddUsage(tokenAccum, obj.usage)
  IN IF pa.threw THEN Threw(tokenAccum)
     ELSE IF obj.usage.present
     THEN Returned(Append(pa.events, TokenUsageEvent(ts, acc, obj.usage)), acc)
     ELSE Returned(pa.events, tokenAccum)

\* parseClaudeEvent(obj, tokenAccum)
parseClaudeEvent(obj, tokenAccum) ==
  IF obj.type = "user" THEN ParseClaudeUser(obj, obj.timestamp, tokenAccum)
  ELSE IF obj.type = "assistant" THEN ParseClaudeAssistant(obj, obj.timestamp, tokenAccum)
  ELSE Returned(<<>>, tokenAccum)

\* buildClaudeSessionStart(obj)
buildClaudeSessionStart(obj) ==
  [kind |-> "session_start", ts |-> obj.timestamp, model |-> "claude",
   source |-> "claude-code"]

(***************************************************************************)
(* Codex records and parseEvent (parser.ts).  A record carries type,       *)
(* timestamp and payload; a record without payload makes parseEvent throw  *)
(* when it reads a field of the payload.                                   *)
(***************************************************************************)
Payload(type, role, text, images, phase) ==
  [present |-> TRUE, type |-> type, role |-> role, text |-> text, images |-> images,
   phase |-> phase]

NoPayload ==
  [present |-> FALSE, type |-> "", role |-> "", text |-> <<>>, images |-> <<>>,
   phase |-> ""]

CodexObj(type, ts, payload) == [type |-> type, timestamp |-> ts, payload |-> payload]

\* parseEvent returns one event or null
One(evt) == [threw |-> FALSE, events |-> <<evt>>]

Null == [threw |-> FALSE, events |-> <<>>]

ParseEventMsg(p, ts) ==
  IF p.type = "user_message"
  THEN One([kind |-> "user_message", ts |-> ts, text |-> p.text, images |-> p.images])
  ELSE IF p.type = "agent_message"
  THEN One([kind |-> "agent_message", ts |-> ts, text |-> p.text, phase |-> ""])
  ELSE IF p.type = "agent_reasoning"
  THEN One([kind |-> "reasoning", ts |-> ts, text |-> p.text])
  ELSE Null

\* a function_call payload whose arguments decode to {cmd, workdir}.  A command is
\* the sequence of its lines (cmd.split("\n")), a line a sequence of tokens: " " is
\* white space, "'" a quote, any other token a run of non-space characters
ExecPayload(name, cmd, workdir, call_id) ==
  [present |-> TRUE, type |-> "function_call", name |-> name, cmd |-> cmd,
   workdir |-> workdir, call_id |-> call_id]

\* the tokens \w+ matches in the commands written here
DelimiterWords == {"EOF", "END"}

\* the white space at the head of a line
RECURSIVE LeadingSpaces(_)
LeadingSpaces(line) ==
  IF line # <<>> /\ Head(line) = " " THEN 1 + LeadingSpaces(Tail(line)) ELSE 0

\* the line without the first n tokens
DropTokens(line, n) == SubSeq(line, n + 1, Len(line))

\* the line without an optional quote at its head: ['"]?
DropQuote(line) == IF line # <<>> /\ Head(line) = "'" THEN Tail(line) ELSE line

\* /^cat\s+>\s+(\S+)\s+<<\s*['"]?(\w+)['"]?\n/ on the first line: the path and the
\* delimiter it captures, or no match
HeredocHeader(line) ==
  LET noMatch == [matched |-> FALSE, path |-> "", delim |-> ""]
      afterCat == DropTokens(line, 1)
      s1 == LeadingSpaces(afterCat)
      atGt == DropTokens(afterCat, s1)
      afterGt == DropTokens(atGt, 1)
      s2 == LeadingSpaces(afterGt)
      atPath == DropTokens(afterGt, s2)
      afterPath == DropTokens(atPath, 1)
      s3 == LeadingSpaces(afterPath)
      atHere == DropTokens(afterPath, s3)
      atWord == DropQuote(DropTokens(DropTokens(atHere, 1),
                                     LeadingSpaces(DropTokens(atHere, 1))))
  IN IF line = <<>> \/ Head(line) # "cat" THEN noMatch
     ELSE IF s1 = 0 \/ atGt = <<>> \/ Head(atGt) # ">" THEN noMatch
     ELSE IF s2 = 0 \/ atPath = <<>> THEN noMatch
     ELSE IF s3 = 0 \/ atHere = <<>> \/ Head(atHere) # "<<" THEN noMatch
     ELSE IF atWord = <<>> \/ Head(atWord) \notin DelimiterWords THEN noMatch
     ELSE IF DropQuote(Tail(atWord)) # <<>> THEN noMatch
     ELSE [matched |-> TRUE, path |-> Head(atPath), delim |-> Head(atWord)]

\* /\n\2[ \t]*$/ on the last line: the delimiter again, then blanks at most
ClosesHeredoc(line, delim) ==
  /\ line # <<>>
  /\ Head(line) = delim
  /\ \A k \in 2..Len(line) : line[k] = " "

\* cmd.match(/^cat\s+>\s+(\S+)\s+<<\s*['"]?(\w+)['"]?\n([\s\S]*?)\n\2[ \t]*$/): $ is
\* the end of the command, so the closing delimiter is its last line, and the
\* content is every line between the first and the last, one at least
heredocMatch(cmd) ==
  LET header == IF cmd = <<>> THEN HeredocHeader(<<>>) ELSE HeredocHeader(cmd[1])
  IN IF Len(cmd) >= 3 /\ header.matched /\ ClosesHeredoc(cmd[Len(cmd)], header.delim)
     THEN [matched |-> TRUE, filepath |-> header.path,
           content |-> SubSeq(cmd, 2, Len(cmd) - 1)]
     ELSE [matched |-> FALSE, filepath |-> "", content |-> <<>>]

\* a plausible slip: the content lines go into the patch without their "+"
HeredocPatch_NoPlus(filepath, content) ==
  << <<"*** Begin Patch">>, <<"*** Add File: ", filepath>> >>
  \o content \o << <<"*** End Patch">> >>

\* `*** Begin Patch\n*** Add File: ${filepath}\n${patchLines}\n*** End Patch`, as
\* the sequence of its lines
HeredocPatch(filepath, content) ==
  << <<"*** Begin Patch">>, <<"*** Add File: ", filepath>> >>
  \o [k \in 1..Len(content) |-> <<"+">> \o content[k]]
  \o << <<"*** End Patch">> >>

\* the exec_command branch of parseEvent
ParseExecCommand(p, ts) ==
  LET m == heredocMatch(p.cmd)
  IN IF m.matched
     THEN One([kind |-> "file_change", ts |-> ts,
               patch |-> HeredocPatch(m.filepath, m.content),
               files |-> <<[action |-> "add", path |-> m.filepath]>>,
               callId |-> p.call_id])
     ELSE One([kind |-> "shell_command", ts |-> ts, cmd |-> p.cmd,
               workdir |-> p.workdir, callId |-> p.call_id])

ParseResponseItem(p, ts) ==
  IF p.type = "function_call" /\ p.name = "exec_command" THEN ParseExecCommand(p, ts)
  ELSE IF p.type = "message" /\ p.role = "user"
  THEN IF Len(p.images) > 0
       THEN One([kind |-> "user_message", ts |-> ts, text |-> p.text,
                 images |-> p.images])
       ELSE Null
  ELSE IF p.type = "message" /\ p.role = "assistant" /\ p.text # <<>>
  THEN One([kind |-> "agent_message", ts |-> ts, text |-> p.text,
            phase |-> IF p.phase = "" THEN "final" ELSE p.phase])
  ELSE IF p.type = "function_call_output"
  THEN One([kind |-> "tool_output", ts |-> ts, output |-> p.text, callId |-> p.role])
  ELSE Null

\* parseEvent(obj)
parseEvent(obj) ==
  IF obj.type \in {"session_meta", "event_msg", "response_item"} /\ ~obj.payload.present
  THEN [threw |-> TRUE, events |-> <<>>]
  ELSE IF obj.type = "session_meta"
  THEN One([kind |-> "session_start", ts |-> obj.timestamp, model |-> "codex",
            source |-> "codex"])
  ELSE IF obj.type = "event_msg" THEN ParseEventMsg(obj.payload, obj.timestamp)
  ELSE IF obj.type = "response_item" THEN ParseResponseItem(obj.payload, obj.timestamp)
  ELSE Null

(***************************************************************************)
(* Deduplicator (dedup.ts).  Both passes null out discarded entries in     *)
(* place and compact afterwards.                                           *)
(***************************************************************************)
NullEvent == [kind |-> "null"]

\* a plausible slip: the survivors come out in reverse
Compact_Reversed(events) ==
  LET left == SelectSeq(events, LAMBDA e : e.kind # "null")
  IN [k \in 1..Len(left) |-> left[Len(left) + 1 - k]]

Compact(events) == SelectSeq(events, LAMBDA e : e.kind # "null")

\* an image reference is a sequence of tokens: it starts with "data:" if it is a
\* data URI and with "/" if it is a local path
hasDataUriImages(images) == Len(images) > 0 /\ images[1][1] = "data:"

\* the index of the first user_message after i, or 0
NextUserMessage(events, i) ==
  LET js == {j \in (i + 1)..Len(events) : events[j].kind = "user_message"}
  IN IF js = {} THEN 0 ELSE CHOOSE j \in js : \A k \in js : j <= k

\* a plausible slip: the kept copy never takes the images of the discarded one
MergedImages_KeepOwn(keepImgs, removeImgs) == keepImgs

\* images of the kept copy after the merge
MergedImages(keepImgs, removeImgs) ==
  IF hasDataUriImages(removeImgs) /\ ~hasDataUriImages(keepImgs) THEN removeImgs
  ELSE IF Len(removeImgs) > Len(keepImgs) /\ ~hasDataUriImages(keepImgs) THEN removeImgs
  ELSE keepImgs

\* text.includes("<image name="): a text is a sequence of tokens, "OPEN" an opening
\* tag <image name="...">, "CLOSE" a closing tag </image>, "IMG" the two together
HasImageTag(text) == HasToken(text, "IMG") \/ HasToken(text, "OPEN")

\* the first loop of deduplicateUserMessages, from index i on
RECURSIVE DedupUserLoop(_, _)
DedupUserLoop(events, i) ==
  IF i > Len(events) THEN events
  ELSE IF events[i].kind # "user_message" THEN DedupUserLoop(events, i + 1)
  ELSE LET j == NextUserMessage(events, i) IN
       IF j = 0 \/ FartherThan(events[i].ts, events[j].ts, 3000)
       THEN DedupUserLoop(events, i + 1)
       ELSE LET iHasXml == HasImageTag(events[i].text)
                jHasXml == HasImageTag(events[j].text)
                keep == IF iHasXml /\ ~jHasXml THEN j ELSE i
                remove == IF iHasXml /\ ~jHasXml THEN i ELSE j
                merged == [events[keep] EXCEPT
                             !.images = MergedImages(events[keep].images,
                                                     events[remove].images)]
            IN DedupUserLoop([events EXCEPT ![keep] = merged, ![remove] = NullEvent],
                             i + 1)

\* the text after its leading white space
RECURSIVE SkipSpaces(_)
SkipSpaces(text) ==
  IF text # <<>> /\ Head(text) = " " THEN SkipSpaces(Tail(text)) ELSE text

\* /<image name=[^>]*>\s*<\/image>/ matches at the head of the text: an opening
\* tag, white space if any, a closing tag
OpensPlaceholder(text) ==
  /\ text # <<>>
  /\ Head(text) = "OPEN"
  /\ SkipSpaces(Tail(text)) # <<>>
  /\ Head(SkipSpaces(Tail(text))) = "CLOSE"

\* text.replace(/<image name=[^>]*>\s*<\/image>\s*/g, ""): one pass from the left;
\* a placeholder goes with the white space that follows it, and the text around a
\* match is not looked at again
RECURSIVE StripPlaceholders(_, _)
StripPlaceholders(text, eating) ==
  IF text = <<>> THEN <<>>
  ELSE IF Head(text) = "IMG" THEN StripPlaceholders(Tail(text), TRUE)
  ELSE IF OpensPlaceholder(text)
       THEN StripPlaceholders(Tail(SkipSpaces(Tail(text))), TRUE)
  ELSE IF Head(text) = " " /\ eating THEN StripPlaceholders(Tail(text), TRUE)
  ELSE <<Head(text)>> \o StripPlaceholders(Tail(text), FALSE)

\* text.trim()
RECURSIVE Trim(_)
Trim(text) ==
  IF text = <<>> THEN <<>>
  ELSE IF Head(text) = " " THEN Trim(Tail(text))
  ELSE IF text[Len(text)] = " " THEN Trim(SubSeq(text, 1, Len(text) - 1))
  ELSE text

\* encodeURIComponent, token by token: "/", "?" and "=" are escaped, and so is the
\* "%" of an escape made before; a name is left as it is
EncodeToken(tok) ==
  CASE tok = "/" -> "%2F"
    [] tok = "api/image?path=" -> "api%2Fimage%3Fpath%3D"
    [] tok = "%2F" -> "%252F"
    [] tok = "api%2Fimage%3Fpath%3D" -> "api%252Fimage%253Fpath%253D"
    [] tok = "%252F" -> "%25252F"
    [] OTHER -> tok

\* a local path becomes a reference the image proxy resolves: "/api/image?path=" +
\* encodeURIComponent(img), which is again a string that starts with "/"
ProxyImage(img) ==
  IF img[1] = "/"
  THEN <<"/", "api/image?path=">> \o [k \in 1..Len(img) |-> EncodeToken(img[k])]
  ELSE img

\* the last loop of deduplicateUserMessages
CleanUserMessage(evt) ==
  IF evt.kind = "user_message"
  THEN [evt EXCEPT !.text = Trim(StripPlaceholders(evt.text, FALSE)),
                   !.images = [k \in 1..Len(evt.images) |-> ProxyImage(evt.images[k])]]
  ELSE evt

\* deduplicateUserMessages(events)
deduplicateUserMessages(events) ==
  LET kept == Compact(DedupUserLoop(events, 1))
  IN [k \in 1..Len(kept) |-> CleanUserMessage(kept[k])]

\* a plausible slip: "final" counts as a phase too
HasPhase_FinalCounts(evt) == evt.phase # ""

\* an agent_message with a phase other than "final"
HasPhase(evt) == evt.phase # "" /\ evt.phase # "final"

\* textA === textB || textA.startsWith(textB.slice(0, 80)) || the converse
Similar(ti, tj) ==
  LET textA == Slice(ti, 0, 200)
      textB == Slice(tj, 0, 200)
  IN \/ textA = textB
     \/ StartsWith(textA, Slice(textB, 0, 80))
     \/ StartsWith(textB, Slice(textA, 0, 80))

\* the inner loop of deduplicateAgentMessages for the message at i, from j on
RECURSIVE DedupAgentScan(_, _, _)
DedupAgentScan(events, i, j) ==
  IF j > Len(events) THEN events
  ELSE IF events[j].kind = "null" THEN DedupAgentScan(events, i, j + 1)
  ELSE IF FartherThan(events[i].ts, events[j].ts, 5000) THEN events
  ELSE IF events[j].kind # "agent_message" THEN DedupAgentScan(events, i, j + 1)
  ELSE IF FartherThan(events[i].ts, events[j].ts, 2000) THEN DedupAgentScan(events, i, j + 1)
  ELSE IF ~Similar(events[i].text, events[j].text) THEN DedupAgentScan(events, i, j + 1)
  ELSE IF HasPhase(events[j]) /\ ~HasPhase(events[i]) THEN [events EXCEPT ![i] = NullEvent]
  ELSE IF HasPhase(events[i]) /\ ~HasPhase(events[j]) THEN [events EXCEPT ![j] = NullEvent]
  ELSE IF Len(events[j].text) >= Len(events[i].text) THEN [events EXCEPT ![i] = NullEvent]
  ELSE [events EXCEPT ![j] = NullEvent]

RECURSIVE DedupAgentLoop(_, _)
DedupAgentLoop(events, i) ==
  IF i > Len(events) THEN events
  ELSE IF events[i].kind # "agent_message" THEN DedupAgentLoop(events, i + 1)
  ELSE DedupAgentLoop(DedupAgentScan(events, i, i + 1), i + 1)

\* deduplicateAgentMessages(events)
deduplicateAgentMessages(events) == Compact(DedupAgentLoop(events, 1))

(***************************************************************************)
(* Files.  A file is a sequence of raw lines: the text of a JSON record,   *)
(* text that is not JSON, an empty line, or a line over MAX_LINE_CHARS.    *)
(***************************************************************************)
JsonLine(obj) == [kind |-> "json", obj |-> obj]

GarbageLine == [kind |-> "garbage", obj |-> <<>>]

EmptyLine == [kind |-> "empty", obj |-> <<>>]

OversizedLine == [kind |-> "oversized", obj |-> <<>>]

\* a plausible slip: the final line is lost
readLines_DropLast(content) ==
  LET ls == SelectSeq(content, LAMBDA l : l.kind \notin {"empty", "oversized"})
  IN IF ls = <<>> THEN ls ELSE SubSeq(ls, 1, Len(ls) - 1)

\* readLines: the lines of the file, without the empty and the oversized ones
readLines(content) == SelectSeq(content, LAMBDA l : l.kind \notin {"empty", "oversized"})

\* resolveSessionFile: a "claude:" reference is a Claude-Code session
SourceOf(path) == IF StartsWith(path, <<"claude:">>) THEN "claude-code" ELSE "codex"

(***************************************************************************)
(* The parse loops of parseSessionFile and of the session-poll route.      *)
(* try { JSON.parse; parse } catch {}: a line that throws adds nothing.    *)
(***************************************************************************)
\* a plausible slip: one try around the whole loop, so the first bad line ends it
RECURSIVE ClaudeFileLoop_AbortsOnError(_, _, _, _, _)
ClaudeFileLoop_AbortsOnError(lines, i, events, tokenAccum, sessionStartAdded) ==
  IF i > Len(lines) THEN [events |-> events, accum |-> tokenAccum]
  ELSE IF lines[i].kind # "json" THEN [events |-> events, accum |-> tokenAccum]
  ELSE LET obj == lines[i].obj
           start == ~sessionStartAdded /\ obj.type = "user" /\ obj.sessionId
           withStart == IF start THEN Append(events, buildClaudeSessionStart(obj))
                        ELSE events
           parsed == parseClaudeEvent(obj, tokenAccum)
       IN IF parsed.threw THEN [events |-> withStart, accum |-> tokenAccum]
          ELSE ClaudeFileLoop_AbortsOnError(lines, i + 1, withStart \o parsed.events,
                                            parsed.accum, sessionStartAdded \/ start)

\* the claude-code loop of parseSessionFile over lines[i..]
RECURSIVE ClaudeFileLoop(_, _, _, _, _)
ClaudeFileLoop(lines, i, events, tokenAccum, sessionStartAdded) ==
  IF i > Len(lines) THEN [events |-> events, accum |-> tokenAccum]
  ELSE IF lines[i].kind # "json"
  THEN ClaudeFileLoop(lines, i + 1, events, tokenAccum, sessionStartAdded)
  ELSE LET obj == lines[i].obj
           start == ~sessionStartAdded /\ obj.type = "user" /\ obj.sessionId
           withStart == IF start THEN Append(events, buildClaudeSessionStart(obj))
                        ELSE events
           parsed == parseClaudeEvent(obj, tokenAccum)
       IN ClaudeFileLoop(lines, i + 1, withStart \o parsed.events, parsed.accum,
                         sessionStartAdded \/ start)

\* the loop over the new lines of a claude-code poll
RECURSIVE ClaudePollLoop(_, _, _, _)
ClaudePollLoop(lines, i, events, tokenAccum) ==
  IF i > Len(lines) THEN [events |-> events, accum |-> tokenAccum]
  ELSE IF lines[i].kind # "json" THEN ClaudePollLoop(lines, i + 1, events, tokenAccum)
  ELSE LET parsed == parseClaudeEvent(lines[i].obj, tokenAccum)
       IN ClaudePollLoop(lines, i + 1, events \o parsed.events, parsed.accum)

\* "Accumulate tokens from prior lines": the replay over lines[0 .. offset)
RECURSIVE ReplayUsage(_, _, _, _)
ReplayUsage(lines, i, offset, tokenAccum) ==
  IF i > offset THEN tokenAccum
  ELSE IF lines[i].kind = "json" /\ lines[i].obj.type = "assistant"
          /\ lines[i].obj.usage.present
  THEN ReplayUsage(lines, i + 1, offset, AddUsage(tokenAccum, lines[i].obj.usage))
  ELSE ReplayUsage(lines, i + 1, offset, tokenAccum)

\* the codex loop of both functions
RECURSIVE CodexLoop(_, _, _)
CodexLoop(lines, i, events) ==
  IF i > Len(lines) THEN events
  ELSE IF lines[i].kind # "json" THEN CodexLoop(lines, i + 1, events)
  ELSE CodexLoop(lines, i + 1, events \o parseEvent(lines[i].obj).events)

\* a plausible slip: the user pass of the Deduplicator runs for every source
ParseAll_DedupsEverySource(source, lines, freshAccum) ==
  IF source = "claude-code"
  THEN [events |-> deduplicateUserMessages(
                     ClaudeFileLoop(lines, 1, <<>>, freshAccum, FALSE).events),
        accum |-> ClaudeFileLoop(lines, 1, <<>>, freshAccum, FALSE).accum]
  ELSE [events |-> deduplicateAgentMessages(
                     deduplicateUserMessages(CodexLoop(lines, 1, <<>>))),
        accum |-> freshAccum]

\* a plausible slip: the events are handed back sorted by timestamp
ParseAll_SortedByTs(source, lines, freshAccum) ==
  LET res == IF source = "claude-code"
             THEN ClaudeFileLoop(lines, 1, <<>>, freshAccum, FALSE)
             ELSE [events |-> deduplicateAgentMessages(
                                deduplicateUserMessages(CodexLoop(lines, 1, <<>>))),
                   accum |-> freshAccum]
      ev == res.events
      \* the place of ev[i] in a stable sort by ts
      place(i) == Cardinality({j \in 1..Len(ev) :
                     ev[j].ts < ev[i].ts \/ (ev[j].ts = ev[i].ts /\ j <= i)})
  IN [events |-> [k \in 1..Len(ev) |-> ev[CHOOSE i \in 1..Len(ev) : place(i) = k]],
      accum |-> res.accum]

\* the body of parseSessionFile after readLines: the events and the accumulator
\* the pass ended with
ParseAll(source, lines, freshAccum) ==
  IF source = "claude-code"
  THEN ClaudeFileLoop(lines, 1, <<>>, freshAccum, FALSE)
  ELSE [events |-> deduplicateAgentMessages(
                     deduplicateUserMessages(CodexLoop(lines, 1, <<>>))),
        accum |-> freshAccum]

\* a plausible slip: at the end of the file the offset is sent back as the total
PollFromOffset_EchoesOffset(source, lines, offset, freshAccum) ==
  IF Len(lines) <= offset
  THEN [events |-> <<>>, total |-> offset, accum |-> freshAccum]
  ELSE LET newLines == SliceFrom(lines, offset) IN
       IF source = "claude-code"
       THEN LET primed == ReplayUsage(lines, 1, offset, freshAccum)
                res == ClaudePollLoop(newLines, 1, <<>>, primed)
            IN [events |-> res.events, total |-> Len(lines), accum |-> res.accum]
       ELSE [events |-> deduplicateAgentMessages(
                          deduplicateUserMessages(CodexLoop(newLines, 1, <<>>))),
             total |-> Len(lines), accum |-> freshAccum]

\* the body of the session-poll route after readLines
PollFromOffset(source, lines, offset, freshAccum) ==
  IF Len(lines) <= offset
  THEN [events |-> <<>>, total |-> Len(lines), accum |-> freshAccum]
  ELSE LET newLines == SliceFrom(lines, offset) IN
       IF source = "claude-code"
       THEN LET primed == ReplayUsage(lines, 1, offset, freshAccum)
                res == ClaudePollLoop(newLines, 1, <<>>, primed)
            IN [events |-> res.events, total |-> Len(lines), accum |-> res.accum]
       ELSE [events |-> deduplicateAgentMessages(
                          deduplicateUserMessages(CodexLoop(newLines, 1, <<>>))),
             total |-> Len(lines), accum |-> freshAccum]

(***************************************************************************)
(* Inputs: the records a producer writes.                                  *)
(***************************************************************************)
TextBlock == [type |-> "text", text |-> <<"o", "k">>, name |-> "", id |-> ""]

NullBlock == [type |-> "null", text |-> <<>>, name |-> "", id |-> ""]

\* a user record with string content that carries the sessionId
ClaudeUser ==
  JsonLine(ClaudeObj("user", 1000, TRUE, FALSE, StringContent(<<"h", "i">>), NoUsage))

\* an assistant record with one text block and a usage block
ClaudeAssistant(usage) ==
  JsonLine(ClaudeObj("assistant", 2000, FALSE, FALSE, ArrayContent(<<TextBlock>>), usage))

\* an assistant record whose content array holds a null: parsing it throws
ClaudeMalformed(usage) ==
  JsonLine(ClaudeObj("assistant", 2000, FALSE, FALSE, ArrayContent(<<NullBlock>>), usage))

\* event_msg / user_message
CodexUserMsg(ts, text, images) ==
  JsonLine(CodexObj("event_msg", ts, Payload("user_message", "", text, images, "")))

\* response_item / message / user
CodexUserItem(ts, text, images) ==
  JsonLine(CodexObj("response_item", ts, Payload("message", "user", text, images, "")))

\* event_msg / agent_message
CodexAgentMsg(ts, text) ==
  JsonLine(CodexObj("event_msg", ts, Payload("agent_message", "", text, <<>>, "")))

\* response_item / message / assistant
CodexAgentItem(ts, text, phase) ==
  JsonLine(CodexObj("response_item", ts, Payload("message", "assistant", text, <<>>, phase)))

\* a user record that carries a sessionId and whose content array holds a null
ClaudeUserMalformed ==
  JsonLine(ClaudeObj("user", 1000, TRUE, FALSE, ArrayContent(<<NullBlock>>), NoUsage))

\* a record of a type the parser does not know
ClaudeUnknown == JsonLine(ClaudeObj("summary", 1000, FALSE, FALSE, NoContent, NoUsage))

\* an event_msg record without payload
CodexNoPayload == JsonLine(CodexObj("event_msg", 1000, NoPayload))

\* an event_msg record whose payload type the parser does not know
CodexUnknown == JsonLine(CodexObj("event_msg", 1000, Payload("other", "", <<>>, <<>>, "")))

ClaudePath == <<"claude:", "a.jsonl">>

CodexPath == <<"b.jsonl">>

Paths == {ClaudePath, CodexPath}

Callers == {"c1", "c2"}

\* what the producers of the cache specification append
CacheLines(path) ==
  IF SourceOf(path) = "claude-code"
  THEN {ClaudeUser, ClaudeAssistant(Usage(1, 2, 1, 1))}
  ELSE {CodexUserMsg(1000, <<"h", "i">>, <<>>), CodexAgentMsg(1000, <<"o", "k">>)}

(***************************************************************************)
(* State.                                                                  *)
(***************************************************************************)
VARIABLES
  fileLines,        \* path -> the raw lines of the file
  fileMtime,        \* path -> mtimeMs of the file
  fileExists,       \* path -> the file has not been unlinked
  parsedFileCache,  \* path -> the cache entry, or NoEntry
  call,             \* caller -> the parseSessionFile call it has in flight
  nextArr,          \* events arrays allocated so far (an array's identity)
  lastReturn,       \* what the most recently completed call returned
  lastAccum,        \* the accumulator the most recent parse pass ended with
  tailOffset,       \* the polling client's stored offset
  tailEvents,       \* the events the polling client has received so far
  tokenAccum,       \* the accumulator handed to successive parseClaudeEvent calls
  fed,              \* the records parseClaudeEvent returned for, with that accumulator
  streamed,         \* readLines: the characters the stream has delivered so far
  pending,          \* readLines: the text buffered for the current line
  pendingLen,       \* readLines: its length
  skipping,         \* readLines: the current line is over the ceiling
  extracted,        \* readLines: the lines pushed so far
  ended,            \* readLines: the stream has ended and the lines were returned
  cuts,             \* the lengths of text at which the stream ended a chunk
  dedupInput,       \* the events handed to the Deduplicator
  dedupOutput,      \* what the Deduplicator left of them, once and twice over
  compactReq,       \* the session-compact request in flight, or NoRequest
  mounted,          \* useSessionPoll: the effect has run
  offsetRef,        \* useSessionPoll: offsetRef.current
  inflight,         \* useSessionPoll: the fetches sent and not yet answered
  delivered         \* useSessionPoll: the events handed to onNewEvents so far

vars ==
  <<fileLines, fileMtime, fileExists, parsedFileCache, call, nextArr, lastReturn,
    lastAccum, tailOffset, tailEvents, tokenAccum, fed, streamed, pending, pendingLen,
    skipping, extracted, ended, cuts, dedupInput, dedupOutput, compactReq, mounted, offsetRef,
    inflight, delivered>>

fsVars == <<fileLines, fileMtime, fileExists>>

tailVars == <<tailOffset, tailEvents>>

accumVars == <<tokenAccum, fed>>

lineVars == <<streamed, pending, pendingLen, skipping, extracted, ended, cuts>>

dedupVars == <<dedupInput, dedupOutput>>

serveVars == <<compactReq, mounted, offsetRef, inflight, delivered>>

\* a slip the design notes warn of: one module-level accumulator, never reset
createTokenAccumulator_Shared == lastAccum

\* createTokenAccumulator()
createTokenAccumulator == ZeroAccumulator

NoEntry == [present |-> FALSE, mtime |-> 0, arr |-> 0, events |-> <<>>, lineCount |-> 0]

Idle == [pc |-> "idle", path |-> <<>>, mtime |-> 0, lines |-> <<>>]

NoReturn ==
  [op |-> "none", path |-> <<>>, offset |-> 0, mtime |-> 0, fromCache |-> FALSE,
   arr |-> 0, events |-> <<>>, lineCount |-> 0, read |-> <<>>, refs |-> <<>>,
   status |-> 0]

NoRequest ==
  [pc |-> "idle", refs |-> <<>>, mtime |-> 0, lines |-> <<>>, arr |-> 0, allEvents |-> <<>>]

NoDedup == [runs |-> 0, users |-> <<>>, agents |-> <<>>, once |-> <<>>, twice |-> <<>>]

\* a plausible slip: any entry for the path is served
CacheHit_IgnoreMtime(cached, mtime) == cached.present

\* a plausible slip: the comparison is inverted, so an unchanged file is re-parsed
CacheHit_Inverted(cached, mtime) == cached.present /\ cached.mtime # mtime

\* cached && cached.mtime === mtime
CacheHit(cached, mtime) == cached.present /\ cached.mtime = mtime

\* a plausible slip: the new events are pushed onto the cached array
CompleteParse_Merge(cached, source, mtime, lines, arr) ==
  LET res == ParseAll(source, lines, createTokenAccumulator)
  IN [entry |-> [present |-> TRUE, mtime |-> mtime,
                 arr |-> IF cached.present THEN cached.arr ELSE arr,
                 events |-> cached.events \o res.events, lineCount |-> Len(lines)],
      accum |-> res.accum]

\* a plausible slip: only the lines that decoded are counted
CompleteParse_CountsDecoded(cached, source, mtime, lines, arr) ==
  LET res == ParseAll(source, lines, createTokenAccumulator)
  IN [entry |-> [present |-> TRUE, mtime |-> mtime, arr |-> arr, events |-> res.events,
                 lineCount |-> Len(SelectSeq(lines, LAMBDA l : l.kind = "json"))],
      accum |-> res.accum]

\* lines 116-149 of parseSessionFile: parse the lines that were read into a new
\* array, and build the entry that replaces the cached one
CompleteParse(cached, source, mtime, lines, arr) ==
  LET res == ParseAll(source, lines, createTokenAccumulator)
  IN [entry |-> [present |-> TRUE, mtime |-> mtime, arr |-> arr, events |-> res.events,
                 lineCount |-> Len(lines)],
      accum |-> res.accum]

TotalLines == Len(fileLines[ClaudePath]) + Len(fileLines[CodexPath])

InFlight == Cardinality({c \in Callers : call[c].pc # "idle"})

(***************************************************************************)
(* The file system: a producer appends a line; each write moves the mtime. *)
(***************************************************************************)
WriteLine(path, line) ==
  /\ fileExists[path]
  /\ fileLines' = [fileLines EXCEPT ![path] = Append(@, line)]
  /\ fileMtime' = [fileMtime EXCEPT ![path] = @ + 1]
  /\ UNCHANGED <<fileExists, parsedFileCache, call, nextArr, lastReturn, lastAccum,
                 tailVars, accumVars,
                 lineVars, dedupVars, serveVars>>

(***************************************************************************)
(* parseSessionFile(filepath, source).  statSync and the cache lookup run   *)
(* synchronously; readLines is awaited; the parse and parsedFileCache.set   *)
(* run synchronously once the lines are there.                             *)
(***************************************************************************)
\* lines 110-114: the entry's mtime equals the file's, the entry is returned
ParseFromCache(c, path) ==
  /\ call[c].pc = "idle"
  /\ fileExists[path]
  /\ CacheHit(parsedFileCache[path], fileMtime[path])
  /\ lastReturn' = [NoReturn EXCEPT !.op = "parse", !.path = path,
                      !.mtime = fileMtime[path], !.fromCache = TRUE,
                      !.arr = parsedFileCache[path].arr,
                      !.events = parsedFileCache[path].events,
                      !.lineCount = parsedFileCache[path].lineCount]
  /\ UNCHANGED <<fsVars, parsedFileCache, call, nextArr, lastAccum, tailVars, accumVars,
                 lineVars, dedupVars, serveVars>>

\* lines 110-116: no entry with this mtime, the call suspends in readLines
ParseBegin(c, path) ==
  /\ call[c].pc = "idle"
  /\ fileExists[path]
  /\ ~CacheHit(parsedFileCache[path], fileMtime[path])
  /\ nextArr + InFlight < MaxArrays
  /\ call' = [call EXCEPT ![c] = [pc |-> "reading", path |-> path,
                                  mtime |-> fileMtime[path], lines |-> <<>>]]
  /\ UNCHANGED <<fsVars, parsedFileCache, nextArr, lastReturn, lastAccum, tailVars,
                 accumVars,
                 lineVars, dedupVars, serveVars>>

\* a plausible slip: the call resumes before the stream has delivered the last line
ParseRead_Truncated(c) ==
  /\ call[c].pc = "reading"
  /\ fileExists[call[c].path]
  /\ call' = [call EXCEPT ![c].pc = "parsing",
                          ![c].lines = readLines_DropLast(fileLines[call[c].path])]
  /\ UNCHANGED <<fsVars, parsedFileCache, nextArr, lastReturn, lastAccum, tailVars,
                 accumVars,
                 lineVars, dedupVars, serveVars>>

\* line 116: the stream has delivered the file's lines
ParseRead(c) ==
  /\ call[c].pc = "reading"
  /\ fileExists[call[c].path]
  /\ call' = [call EXCEPT ![c].pc = "parsing",
                          ![c].lines = readLines(fileLines[call[c].path])]
  /\ UNCHANGED <<fsVars, parsedFileCache, nextArr, lastReturn, lastAccum, tailVars,
                 accumVars,
                 lineVars, dedupVars, serveVars>>

\* line 116: the file was unlinked before the stream opened it, readLines rejects
ParseReadFails(c) ==
  /\ call[c].pc = "reading"
  /\ ~fileExists[call[c].path]
  /\ call' = [call EXCEPT ![c] = Idle]
  /\ lastReturn' = [NoReturn EXCEPT !.op = "error", !.path = call[c].path]
  /\ UNCHANGED <<fsVars, parsedFileCache, nextArr, lastAccum, tailVars, accumVars,
                 lineVars, dedupVars, serveVars>>

\* lines 117-149: parse, store the entry, return the result
ParseFinish(c) ==
  /\ call[c].pc = "parsing"
  /\ \E path \in {call[c].path} :
     \E done \in {CompleteParse(parsedFileCache[path], SourceOf(path), call[c].mtime,
                                 call[c].lines, nextArr + 1)} :
        /\ parsedFileCache' = [parsedFileCache EXCEPT ![path] = done.entry]
        /\ lastReturn' = [NoReturn EXCEPT !.op = "parse", !.path = path,
                            !.mtime = call[c].mtime, !.arr = done.entry.arr,
                            !.events = done.entry.events,
                            !.lineCount = done.entry.lineCount,
                            !.read = call[c].lines]
        /\ lastAccum' = done.accum
  /\ nextArr' = nextArr + 1
  /\ call' = [call EXCEPT ![c] = Idle]
  /\ UNCHANGED <<fsVars, tailVars, accumVars,
                 lineVars, dedupVars, serveVars>>

(***************************************************************************)
(* DELETE /api/sessions: unlinkSync, then clearParsedFileCache.            *)
(***************************************************************************)
clearParsedFileCache(path) ==
  parsedFileCache' = [parsedFileCache EXCEPT ![path] = NoEntry]

DeleteSession(path) ==
  /\ fileExists[path]
  /\ fileExists' = [fileExists EXCEPT ![path] = FALSE]
  /\ clearParsedFileCache(path)
  /\ UNCHANGED <<fileLines, fileMtime, call, nextArr, lastReturn, lastAccum, tailVars,
                 accumVars,
                 lineVars, dedupVars, serveVars>>

(***************************************************************************)
(* GET /api/session-poll: pollFromOffset(path, source, offset).  The route *)
(* reads no shared state but the file.                                     *)
(***************************************************************************)
Poll(path, offset) ==
  /\ fileExists[path]
  /\ \E lines \in {readLines(fileLines[path])} :
     \E res \in {PollFromOffset(SourceOf(path), lines, offset, createTokenAccumulator)} :
        /\ lastReturn' = [NoReturn EXCEPT !.op = "poll", !.path = path,
                            !.offset = offset, !.events = res.events,
                            !.lineCount = res.total, !.read = lines]
        /\ lastAccum' = res.accum
  /\ UNCHANGED <<fsVars, parsedFileCache, call, nextArr, tailVars, accumVars,
                 lineVars, dedupVars, serveVars>>

(***************************************************************************)
(* The session cache under concurrent callers, producers and deletions.    *)
(***************************************************************************)
Init ==
  /\ fileLines = [p \in Paths |-> <<>>]
  /\ fileMtime = [p \in Paths |-> 1]
  /\ \E live \in Paths : fileExists = [p \in Paths |-> p = live]
  /\ parsedFileCache = [p \in Paths |-> NoEntry]
  /\ call = [c \in Callers |-> Idle]
  /\ nextArr = 0
  /\ lastReturn = NoReturn
  /\ lastAccum = ZeroAccumulator
  /\ tailOffset = 0
  /\ tailEvents = <<>>
  /\ tokenAccum = ZeroAccumulator
  /\ fed = <<>>
  /\ streamed = <<>>
  /\ pending = <<>>
  /\ pendingLen = 0
  /\ skipping = FALSE
  /\ extracted = <<>>
  /\ ended = FALSE
  /\ cuts = {}
  /\ dedupInput = <<>>
  /\ dedupOutput = NoDedup
  /\ compactReq = NoRequest
  /\ mounted = FALSE
  /\ offsetRef = 0
  /\ inflight = <<>>
  /\ delivered = <<>>

Next ==
  \/ \E p \in Paths : \E l \in CacheLines(p) : TotalLines < MaxLines /\ WriteLine(p, l)
  \/ \E c \in Callers, p \in Paths : ParseFromCache(c, p)
  \/ \E c \in Callers, p \in Paths : ParseBegin(c, p)
  \/ \E c \in Callers : ParseRead(c)
  \/ \E c \in Callers : ParseReadFails(c)
  \/ \E c \in Callers : ParseFinish(c)
  \/ \E p \in Paths : DeleteSession(p)

Spec == Init /\ [][Next]_vars

\* the events and line count of a full parse of the lines `lines`
FullParseOf(path, lines) ==
  [events |-> ParseAll(SourceOf(path), lines, ZeroAccumulator).events,
   lineCount |-> Len(lines)]

\* the versions the file has had since its mtime was `mtime`: every write appends
\* one line and moves the mtime by one, from 1 for the empty file
VersionsSince(path, mtime) ==
  {readLines(SubSeq(fileLines[path], 1, k)) : k \in (mtime - 1)..Len(fileLines[path])}

\* C5: a parseSessionFile call on a file that is unmodified since the call that
\* completed just before it stat'ed the file answers from the cache: it returns the
\* very events array (same identity) and the lineCount that call returned, allocates
\* no array and starts no read.
C5_SecondParseIsCacheIdentical ==
  [][\A c \in Callers, p \in Paths :
       ( /\ lastReturn.op = "parse"
         /\ lastReturn.path = p
         /\ lastReturn.mtime = fileMtime[p]
         /\ (ParseFromCache(c, p) \/ ParseBegin(c, p)) )
       => ( /\ lastReturn'.fromCache
            /\ lastReturn'.arr = lastReturn.arr
            /\ lastReturn'.events = lastReturn.events
            /\ lastReturn'.lineCount = lastReturn.lineCount
            /\ nextArr' = nextArr
            /\ call' = call )]_vars

\* C5 witness: a second call has been answered from the cache with parsed events
C5_Witness ==
  /\ lastReturn.op = "parse"
  /\ lastReturn.fromCache
  /\ lastReturn.arr = 1
  /\ lastReturn.events # <<>>

\* C6: a call that found no entry with the file's mtime returns a fresh array that
\* holds exactly the parse, from the first line, of all the lines it read, and the
\* entry it leaves is that result as a whole under the mtime it stat'ed.
C6_MissReparsesFromStart ==
  (lastReturn.op = "parse" /\ ~lastReturn.fromCache) =>
    LET p == lastReturn.path IN
    /\ lastReturn.arr = nextArr
    /\ lastReturn.read \in VersionsSince(p, lastReturn.mtime)
    /\ lastReturn.events = FullParseOf(p, lastReturn.read).events
    /\ lastReturn.lineCount = Len(lastReturn.read)
    /\ parsedFileCache[p].present =>
         parsedFileCache[p] = [present |-> TRUE, mtime |-> lastReturn.mtime,
                               arr |-> lastReturn.arr, events |-> lastReturn.events,
                               lineCount |-> lastReturn.lineCount]

\* C6 witness: a re-parse after the mtime changed has superseded an entry that
\* held events
C6_Witness ==
  /\ lastReturn.op = "parse"
  /\ ~lastReturn.fromCache
  /\ lastReturn.arr = 2
  /\ lastReturn.lineCount = 2
  /\ lastReturn.mtime = 3

\* C7: an entry that parseSessionFile would serve (its mtime is the file's) holds
\* the events and the line count of a fresh parse of the file's current content.
C7_ServedEntryIsFresh ==
  \A p \in Paths :
    (fileExists[p] /\ CacheHit(parsedFileCache[p], fileMtime[p])) =>
      /\ parsedFileCache[p].events = FullParseOf(p, readLines(fileLines[p])).events
      /\ parsedFileCache[p].lineCount = Len(readLines(fileLines[p]))

\* C7 witness: a call was answered from the cache after the file had been written
\* while another call was in flight
C7_Witness ==
  /\ lastReturn.op = "parse"
  /\ lastReturn.fromCache
  /\ lastReturn.mtime > 1
  /\ InFlight > 0

\* C8: the mtime of a path's cache entry never decreases.
C8_EntryMtimeNeverDecreases ==
  [][\A p \in Paths :
       (parsedFileCache[p].present /\ parsedFileCache'[p].present)
         => parsedFileCache'[p].mtime >= parsedFileCache[p].mtime]_vars

\* C9: under concurrent callers every parseSessionFile call returns, and the cache
\* holds, the events and lineCount of one complete parse of a version the file had
\* at or after the mtime the call stat'ed.
C9_RaceOnlyDuplicatesWork ==
  /\ \A p \in Paths :
       parsedFileCache[p].present =>
         \E v \in VersionsSince(p, parsedFileCache[p].mtime) :
           /\ parsedFileCache[p].events = FullParseOf(p, v).events
           /\ parsedFileCache[p].lineCount = FullParseOf(p, v).lineCount
  /\ lastReturn.op = "parse" =>
       \E v \in VersionsSince(lastReturn.path, lastReturn.mtime) :
         /\ lastReturn.events = FullParseOf(lastReturn.path, v).events
         /\ lastReturn.lineCount = FullParseOf(lastReturn.path, v).lineCount

\* C9 witness: one of two calls that stat'ed the same version has returned its
\* parse while the other, the duplicate, is still in flight
C9_Witness ==
  /\ lastReturn.op = "parse"
  /\ ~lastReturn.fromCache
  /\ lastReturn.events # <<>>
  /\ \E c \in Callers :
       /\ call[c].pc # "idle"
       /\ call[c].path = lastReturn.path
       /\ call[c].mtime = lastReturn.mtime

\* C10: the cache holds no entry for a path whose file the delete operation removed.
C10_DeletedPathHasNoEntry ==
  \A p \in Paths : ~fileExists[p] => ~parsedFileCache[p].present

(***************************************************************************)
(* parseClaudeEvent called record after record with one accumulator, as    *)
(* the parse loops and the parser's tests call it.                         *)
(***************************************************************************)
\* the three records of the parser's accumulation test
ExampleRecords ==
  <<ClaudeAssistant(Usage(100, 50, 0, 0)).obj,
    ClaudeAssistant(Usage(200, 80, 0, 0)).obj,
    ClaudeAssistant(Usage(50, 20, 10, 5)).obj>>

AccumRecords ==
  {ClaudeUser.obj,
   ClaudeAssistant(Usage(1, 2, 1, 1)).obj,
   ClaudeAssistant(Usage(2, 1, 0, 0)).obj,
   ClaudeAssistant(NoUsage).obj,
   ClaudeMalformed(Usage(1, 1, 1, 1)).obj}
  \cup {ExampleRecords[k] : k \in 1..3}

\* const accum = createTokenAccumulator()
NewAccumulator ==
  /\ fed # <<>>
  /\ tokenAccum' = createTokenAccumulator
  /\ fed' = <<>>
  /\ lastReturn' = NoReturn
  /\ UNCHANGED <<fsVars, parsedFileCache, call, nextArr, lastAccum, tailVars,
                 lineVars, dedupVars, serveVars>>

\* parseClaudeEvent(obj, accum) returns its events
ParseRecord(obj) ==
  /\ LET r == parseClaudeEvent(obj, tokenAccum)
     IN /\ ~r.threw
        /\ tokenAccum' = r.accum
        /\ lastReturn' = [NoReturn EXCEPT !.op = "event", !.events = r.events]
  /\ fed' = Append(fed, obj)
  /\ UNCHANGED <<fsVars, parsedFileCache, call, nextArr, lastAccum, tailVars,
                 lineVars, dedupVars, serveVars>>

\* parseClaudeEvent(obj, accum) throws: the accumulator is as it was
ParseRecordThrows(obj) ==
  /\ parseClaudeEvent(obj, tokenAccum).threw
  /\ lastReturn' = [NoReturn EXCEPT !.op = "error"]
  /\ UNCHANGED <<fsVars, parsedFileCache, call, nextArr, lastAccum, tailVars, accumVars,
                 lineVars, dedupVars, serveVars>>

\* response_item / function_call / exec_command
CodexExec(cmd) ==
  JsonLine(CodexObj("response_item", 1000, ExecPayload("exec_command", cmd, <<"/tmp">>, "c4")))

\* how a heredoc is opened: <<EOF, <<'EOF' and << 'EOF'; "'" is either quote
HeredocStyles == {"bare", "quoted", "spaced"}

HeredocOpener(style, delim) ==
  IF style = "bare" THEN <<"<<", delim>>
  ELSE IF style = "quoted" THEN <<"<<", "'", delim, "'">>
  ELSE <<"<<", " ", "'", delim, "'">>

\* cat > path <<'DELIM' \n content \n DELIM, blanks after the closing delimiter
HeredocWrite(path, style, delim, content, blanks) ==
  << <<"cat", " ", ">", " ", path, " ">> \o HeredocOpener(style, delim) >>
  \o content \o << <<delim>> \o blanks >>

ExecPaths == {"notes.txt", "src/a.ts"}

\* one line; three lines, one of them empty and one that starts with the delimiter;
\* three lines, one of them the delimiter itself
HeredocContents ==
  { << <<"hello">> >>,
    << <<"a", " ", "b">>, <<>>, <<"EOF", "x">> >>,
    << <<"a">>, <<"EOF">>, <<"b">> >> }

HeredocBlanks == {<<>>, <<" ", " ">>}

\* commands the pattern does not match: another command, cat reading a file, an
\* append, no white space before the path, a heredoc without content, a line after
\* the delimiter, a newline after the delimiter, another word where the delimiter
\* should be, and white space in front
OtherCmds ==
  { << <<"ls", " ", "-la">> >> }
  \cup UNION {
    { << <<"cat", " ", path>> >>,
      << <<"cat", " ", ">>", " ", path, " ", "<<", delim>>, <<"hello">>, <<delim>> >>,
      << <<"cat", " ", ">", path, " ", "<<", delim>>, <<"hello">>, <<delim>> >>,
      << <<"cat", " ", ">", " ", path, " ", "<<", delim>>, <<delim>> >>,
      << <<"cat", " ", ">", " ", path, " ", "<<", delim>>, <<"hello">>, <<delim>>,
         <<"ls">> >>,
      << <<"cat", " ", ">", " ", path, " ", "<<", delim>>, <<"hello">>, <<delim>>, <<>> >>,
      << <<"cat", " ", ">", " ", path, " ", "<<", delim>>, <<"hello">>, <<"x">> >>,
      << <<" ", "cat", " ", ">", " ", path, " ", "<<", delim>>, <<"hello">>, <<delim>> >> }
    : path \in ExecPaths, delim \in DelimiterWords }

\* the commands the pattern matches
HeredocCmds ==
  {HeredocWrite(path, style, delim, content, blanks) :
     path \in ExecPaths, style \in HeredocStyles, delim \in DelimiterWords,
     content \in HeredocContents, blanks \in HeredocBlanks}

ExecRecords == {CodexExec(cmd).obj : cmd \in HeredocCmds \cup OtherCmds}

CodexRecords == {CodexUserMsg(1000, <<"h", "i">>, <<>>).obj, CodexNoPayload.obj, CodexUnknown.obj}

\* parseEvent(obj) returns an event or null, or throws
ParseCodexRecord(obj) ==
  /\ lastReturn' = IF parseEvent(obj).threw
                   THEN [NoReturn EXCEPT !.op = "codex-error", !.read = <<JsonLine(obj)>>]
                   ELSE [NoReturn EXCEPT !.op = "codex-event", !.read = <<JsonLine(obj)>>,
                                         !.events = parseEvent(obj).events]
  /\ UNCHANGED <<fsVars, parsedFileCache, call, nextArr, lastAccum, tailVars, accumVars,
                 lineVars, dedupVars, serveVars>>

NextAccum ==
  \/ NewAccumulator
  \/ \E obj \in AccumRecords : Len(fed) < MaxRecords /\ ParseRecord(obj)
  \/ \E obj \in AccumRecords : ParseRecordThrows(obj)
  \/ \E obj \in CodexRecords : ParseCodexRecord(obj)

SpecAccum == Init /\ [][NextAccum]_vars

\* the sum of one usage field over the assistant records of a sequence
RECURSIVE SumUsage(_, _)
SumUsage(records, field) ==
  IF records = <<>> THEN 0
  ELSE (IF Head(records).type = "assistant" THEN Head(records).usage[field] ELSE 0)
       + SumUsage(Tail(records), field)

\* C3: the token_usage event emitted for a record reports the totals over all
\* records parsed with the accumulator since it was created: total_output the sum
\* of output_tokens, cached_input the sum of cache_read_input_tokens, total_input
\* the sum of the three input fields, total_tokens = total_input + total_output.
C3_TotalsAreCumulative ==
  ( /\ lastReturn.op = "event"
    /\ fed # <<>>
    /\ fed[Len(fed)].type = "assistant"
    /\ fed[Len(fed)].usage.present ) =>
    /\ lastReturn.events # <<>>
    /\ LET ev == lastReturn.events[Len(lastReturn.events)]
       IN /\ ev.kind = "token_usage"
          /\ ev.total_output = SumUsage(fed, "output_tokens")
          /\ ev.cached_input = SumUsage(fed, "cache_read_input_tokens")
          /\ ev.total_input = SumUsage(fed, "input_tokens")
                              + SumUsage(fed, "cache_read_input_tokens")
                              + SumUsage(fed, "cache_creation_input_tokens")
          /\ ev.total_tokens = ev.total_input + ev.total_output

\* C3 witness: the third record's event reports more than that record's own usage
C3_Witness ==
  /\ lastReturn.op = "event"
  /\ Len(fed) = 3
  /\ fed[3].usage.present
  /\ lastReturn.events[Len(lastReturn.events)].kind = "token_usage"
  /\ lastReturn.events[Len(lastReturn.events)].total_output = 5
  /\ lastReturn.events[Len(lastReturn.events)].last_output = 1
  /\ lastReturn.events[Len(lastReturn.events)].total_input > 
       lastReturn.events[Len(lastReturn.events)].last_input

(***************************************************************************)
(* One caller at a time: full parses and polls follow one another on two   *)
(* files that grow.                                                        *)
(***************************************************************************)
InitSeq ==
  /\ fileLines = [p \in Paths |-> <<>>]
  /\ fileMtime = [p \in Paths |-> 1]
  /\ fileExists = [p \in Paths |-> TRUE]
  /\ parsedFileCache = [p \in Paths |-> NoEntry]
  /\ call = [c \in Callers |-> Idle]
  /\ nextArr = 0
  /\ lastReturn = NoReturn
  /\ lastAccum = ZeroAccumulator
  /\ tailOffset = 0
  /\ tailEvents = <<>>
  /\ tokenAccum = ZeroAccumulator
  /\ fed = <<>>
  /\ streamed = <<>>
  /\ pending = <<>>
  /\ pendingLen = 0
  /\ skipping = FALSE
  /\ extracted = <<>>
  /\ ended = FALSE
  /\ cuts = {}
  /\ dedupInput = <<>>
  /\ dedupOutput = NoDedup
  /\ compactReq = NoRequest
  /\ mounted = FALSE
  /\ offsetRef = 0
  /\ inflight = <<>>
  /\ delivered = <<>>

NextSeq ==
  \/ \E p \in Paths : \E l \in CacheLines(p) : TotalLines < MaxSeqLines /\ WriteLine(p, l)
  \/ \E p \in Paths : ParseFromCache("c1", p)
  \/ \E p \in Paths : ParseBegin("c1", p)
  \/ ParseRead("c1")
  \/ ParseFinish("c1")
  \/ \E p \in Paths : \E offset \in 0..MaxSeqLines : call["c1"].pc = "idle" /\ Poll(p, offset)

SpecSeq == InitSeq /\ [][NextSeq]_vars

\* the JSON records among the lines
RecordsOf(lines) ==
  LET js == SelectSeq(lines, LAMBDA l : l.kind = "json")
  IN [k \in 1..Len(js) |-> js[k].obj]

\* the token_usage events of an event list
TokenUsagesOf(events) == SelectSeq(events, LAMBDA e : e.kind = "token_usage")

\* C4: a parse that read the file, or a poll that found new lines, starts from a
\* fresh accumulator whatever calls came before: it ends with exactly the usage of
\* the lines it read, each counted once, and its last token_usage event reports
\* that total.
C4_AccumulatorFreshPerCall ==
  ( /\ lastReturn.op \in {"parse", "poll"}
    /\ ~lastReturn.fromCache
    /\ SourceOf(lastReturn.path) = "claude-code"
    /\ lastReturn.op = "poll" => lastReturn.offset < Len(lastReturn.read) ) =>
    /\ lastAccum.input = SumUsage(RecordsOf(lastReturn.read), "input_tokens")
    /\ lastAccum.output = SumUsage(RecordsOf(lastReturn.read), "output_tokens")
    /\ lastAccum.cacheRead = SumUsage(RecordsOf(lastReturn.read), "cache_read_input_tokens")
    /\ lastAccum.cacheCreate =
         SumUsage(RecordsOf(lastReturn.read), "cache_creation_input_tokens")
    /\ LET tus == TokenUsagesOf(lastReturn.events)
       IN tus # <<>> =>
            /\ tus[Len(tus)].total_output = lastAccum.output
            /\ tus[Len(tus)].total_input =
                 lastAccum.input + lastAccum.cacheRead + lastAccum.cacheCreate

\* C4 witness: the re-parse after an mtime change, of a file whose first line was
\* already counted by the parse before it
C4_Witness ==
  /\ lastReturn.op = "parse"
  /\ ~lastReturn.fromCache
  /\ lastReturn.path = ClaudePath
  /\ nextArr = 2
  /\ Len(lastReturn.read) = 2
  /\ Len(TokenUsagesOf(lastReturn.events)) = 2
  /\ lastAccum.output = 4

(***************************************************************************)
(* One growing file, polled at arbitrary offsets and tailed from offset 0  *)
(* by a client that feeds every returned total into its next request.      *)
(***************************************************************************)
\* what the producers of the poll specification append
PollLines(path) ==
  IF SourceOf(path) = "claude-code"
  THEN {ClaudeUser,
        ClaudeAssistant(Usage(1, 2, 1, 1)),
        ClaudeAssistant(Usage(2, 1, 0, 0)),
        ClaudeMalformed(Usage(1, 1, 1, 1)),
        GarbageLine,
        EmptyLine}
  ELSE {CodexUserMsg(1000, <<"h", "i">>, <<>>),
        CodexUserItem(1000, <<"h", "i">>, <<<<"data:", "x">>>>),
        CodexAgentMsg(1000, <<"o", "k">>),
        CodexAgentItem(1000, <<"o", "k">>, "final"),
        GarbageLine}

\* GET /api/session-poll?offset=<tailOffset>; the client keeps the events and the total
TailPoll(path) ==
  /\ fileExists[path]
  /\ \E lines \in {readLines(fileLines[path])} :
     \E res \in {PollFromOffset(SourceOf(path), lines, tailOffset, createTokenAccumulator)} :
        /\ tailEvents' = tailEvents \o res.events
        /\ tailOffset' = res.total
  /\ UNCHANGED <<fsVars, parsedFileCache, call, nextArr, lastReturn, lastAccum, accumVars,
                 lineVars, dedupVars, serveVars>>

NextPoll ==
  \/ \E p \in Paths : \E l \in PollLines(p) : TotalLines < MaxTailLines /\ WriteLine(p, l)
  \/ \E p \in Paths : TailPoll(p)
  \/ \E p \in Paths : \E offset \in 0..MaxTailLines : Poll(p, offset)

SpecPoll == Init /\ [][NextPoll]_vars

\* an event list with the numeric fields of its token_usage events left out
WithoutTotals(events) ==
  [k \in 1..Len(events) |->
     IF events[k].kind = "token_usage"
     THEN [kind |-> "token_usage", ts |-> events[k].ts]
     ELSE events[k]]

\* C1: once the tailing client has caught up with the file, the events it has
\* concatenated are the events of one full parse of the file (the totals of the
\* token_usage events aside), for the codex and for the claude-code source.
C1_TailEqualsFullParse ==
  \A p \in Paths :
    (fileExists[p] /\ tailOffset = Len(readLines(fileLines[p]))) =>
      WithoutTotals(tailEvents) =
        WithoutTotals(ParseAll(SourceOf(p), readLines(fileLines[p]), ZeroAccumulator).events)

\* C2: the token_usage events of a claude-code poll at an offset below the line
\* count carry the total_input and total_output of the token_usage events a full
\* parse of the same lines emits for the same lines.
C2_PollTotalsMatchFullParse ==
  ( /\ lastReturn.op = "poll"
    /\ SourceOf(lastReturn.path) = "claude-code"
    /\ lastReturn.offset < Len(lastReturn.read) ) =>
    LET polled == TokenUsagesOf(lastReturn.events)
        full == TokenUsagesOf(ParseAll("claude-code", lastReturn.read, ZeroAccumulator).events)
        skip == Len(full) - Len(polled)
    IN /\ skip >= 0
       /\ \A k \in 1..Len(polled) :
            /\ polled[k].total_input = full[skip + k].total_input
            /\ polled[k].total_output = full[skip + k].total_output

(***************************************************************************)
(* readLines, character by character.  The stream delivers the file in     *)
(* chunks cut at arbitrary places; "\n" is the newline, "a" and "b" stand  *)
(* for any other character.                                                *)
(***************************************************************************)
Chars == {"a", "b", "\n"}

Chunks == UNION {[1..n -> Chars] : n \in 1..MaxChunkChars}

\* chunk.indexOf("\n", searchStart), 1-based; 0 for -1
IndexOfNewline(chunk, searchStart) ==
  LET at == {i \in searchStart..Len(chunk) : chunk[i] = "\n"}
  IN IF at = {} THEN 0 ELSE CHOOSE i \in at : \A j \in at : i <= j

\* pendingLen + remaining.length > MAX_LINE_CHARS
Overflows(len, remaining) == len + Len(remaining) > MAX_LINE_CHARS

\* a plausible slip: the line is pushed whatever its length
Fits_Unbounded(len, segment) == TRUE

\* pendingLen + segment.length <= MAX_LINE_CHARS
Fits(len, segment) == len + Len(segment) <= MAX_LINE_CHARS

\* a plausible slip: a skip, once begun, is never ended
ResetAtNewline_StillSkipping(st, pushed) ==
  [pending |-> <<>>, pendingLen |-> 0, skipping |-> st.skipping, lines |-> pushed]

\* pending = ""; pendingLen = 0; skipping = false after every newline
ResetAtNewline(st, pushed) ==
  [pending |-> <<>>, pendingLen |-> 0, skipping |-> FALSE, lines |-> pushed]

\* the while loop over one chunk, from searchStart on
RECURSIVE ScanChunk(_, _, _)
ScanChunk(st, chunk, searchStart) ==
  IF searchStart > Len(chunk) THEN st
  ELSE LET nlIdx == IndexOfNewline(chunk, searchStart) IN
       IF nlIdx = 0
       THEN IF st.skipping THEN st
            ELSE LET remaining == SubSeq(chunk, searchStart, Len(chunk)) IN
                 IF Overflows(st.pendingLen, remaining)
                 THEN [st EXCEPT !.skipping = TRUE, !.pending = <<>>, !.pendingLen = 0]
                 ELSE [st EXCEPT !.pending = @ \o remaining,
                                 !.pendingLen = @ + Len(remaining)]
       ELSE LET segment == SubSeq(chunk, searchStart, nlIdx - 1)
                line == st.pending \o segment
                pushed == IF ~st.skipping /\ Fits(st.pendingLen, segment) /\ line # <<>>
                          THEN Append(st.lines, line)
                          ELSE st.lines
            IN ScanChunk(ResetAtNewline(st, pushed), chunk, nlIdx + 1)

\* a plausible slip: the buffered text is declared inside the loop, so that every
\* chunk begins with an empty buffer
ReadChunk_FreshBuffer(chunk) ==
  /\ ~ended
  /\ LET st == ScanChunk([pending |-> <<>>, pendingLen |-> 0,
                          skipping |-> skipping, lines |-> extracted], chunk, 1)
     IN /\ pending' = st.pending
        /\ pendingLen' = st.pendingLen
        /\ skipping' = st.skipping
        /\ extracted' = st.lines
  /\ streamed' = streamed \o chunk
  /\ UNCHANGED <<fsVars, parsedFileCache, call, nextArr, lastReturn, lastAccum, tailVars,
                 accumVars, ended, dedupVars, serveVars>>

\* one iteration of for await (const chunk of stream)
ReadChunk(chunk) ==
  /\ ~ended
  /\ LET st == ScanChunk([pending |-> pending, pendingLen |-> pendingLen,
                          skipping |-> skipping, lines |-> extracted], chunk, 1)
     IN /\ pending' = st.pending
        /\ pendingLen' = st.pendingLen
        /\ skipping' = st.skipping
        /\ extracted' = st.lines
  /\ streamed' = streamed \o chunk
  /\ UNCHANGED <<fsVars, parsedFileCache, call, nextArr, lastReturn, lastAccum, tailVars,
                 accumVars, ended, dedupVars, serveVars>>

\* a plausible slip: the text after the last newline is forgotten
EndOfStream_DropsTail ==
  /\ ~ended
  /\ ended' = TRUE
  /\ UNCHANGED <<fsVars, parsedFileCache, call, nextArr, lastReturn, lastAccum, tailVars,
                 accumVars, streamed, pending, pendingLen, skipping, extracted, cuts, dedupVars,
                 serveVars>>

\* the stream ends: if (pending && !skipping) lines.push(pending); return lines
EndOfStream ==
  /\ ~ended
  /\ ended' = TRUE
  /\ extracted' = IF pending # <<>> /\ ~skipping THEN Append(extracted, pending)
                  ELSE extracted
  /\ UNCHANGED <<fsVars, parsedFileCache, call, nextArr, lastReturn, lastAccum, tailVars,
                 accumVars, streamed, pending, pendingLen, skipping, cuts, dedupVars, serveVars>>

NextLines ==
  \/ \E chunk \in Chunks :
       Len(streamed) + Len(chunk) <= MaxStreamChars /\ ReadChunk(chunk) /\ UNCHANGED cuts
  \/ EndOfStream

SpecLines == Init /\ [][NextLines]_vars

\* the text between the newlines of a text, the text after the last one included
RECURSIVE SplitOnNewline(_)
SplitOnNewline(text) ==
  LET k == IndexOfNewline(text, 1)
  IN IF k = 0 THEN <<text>>
     ELSE <<SubSeq(text, 1, k - 1)>> \o SplitOnNewline(SubSeq(text, k + 1, Len(text)))

\* the non-empty lines of a text that are within the ceiling
LinesWithinCeiling(text) ==
  SelectSeq(SplitOnNewline(text), LAMBDA l : l # <<>> /\ Len(l) <= MAX_LINE_CHARS)

\* C11: whatever the chunking, the lines returned are the lines of the text within
\* the ceiling, whole and in order: an oversized line leaves nothing behind, neither
\* a truncated line nor pieces, and the lines after it are returned.
C11_OversizedLineDroppedWhole ==
  ended => extracted = LinesWithinCeiling(streamed)

\* C11 witness: one oversized line between two ordinary ones
C11_Witness ==
  /\ ended
  /\ streamed = <<"a", "\n", "b", "a", "b", "\n", "b">>
  /\ extracted = << <<"a">>, <<"b">> >>

\* C12: no extracted line and no buffered text is longer than the ceiling.
C12_NothingOverCeiling ==
  /\ \A i \in 1..Len(extracted) : Len(extracted[i]) <= MAX_LINE_CHARS
  /\ Len(pending) <= MAX_LINE_CHARS
  /\ pendingLen = Len(pending)

\* C12 witness: a line of exactly the ceiling was returned and a longer one is
\* being skipped
C12_Witness ==
  /\ skipping
  /\ \E i \in 1..Len(extracted) : Len(extracted[i]) = MAX_LINE_CHARS
  /\ Len(streamed) > MAX_LINE_CHARS + 1

\* the text after the last newline
FinalPartialLine(text) == SplitOnNewline(text)[Len(SplitOnNewline(text))]

\* C13: text that follows the last newline is the last line returned, unless it is
\* over the ceiling, in which case the lines are those before it.
C13_FinalPartialLineIncluded ==
  (ended /\ FinalPartialLine(streamed) # <<>>) =>
    LET tail == FinalPartialLine(streamed)
        before == LinesWithinCeiling(SubSeq(streamed, 1, Len(streamed) - Len(tail)))
    IN IF Len(tail) <= MAX_LINE_CHARS
       THEN extracted = Append(before, tail)
       ELSE extracted = before

\* C13 witness: the stream ended in the middle of a line that fits
C13_Witness ==
  /\ ended
  /\ streamed = <<"b", "b", "b", "\n", "a", "b">>
  /\ extracted = << <<"a", "b">> >>

\* the same reader, with the places at which the stream cut the text noted
NextChunks ==
  \/ \E chunk \in Chunks :
       /\ Len(streamed) + Len(chunk) <= MaxCutChars
       /\ ReadChunk(chunk)
       /\ cuts' = cuts \cup {Len(streamed) + Len(chunk)}
  \/ EndOfStream

SpecChunks == Init /\ [][NextChunks]_vars

\* lines, pending, pendingLen and skipping as readLines declares them
FreshReader == [pending |-> <<>>, pendingLen |-> 0, skipping |-> FALSE, lines |-> <<>>]

\* what readLines returns for a text that arrives whole, in a single chunk
LinesOfOneChunk(text) ==
  LET st == ScanChunk(FreshReader, text, 1)
  IN IF st.pending # <<>> /\ ~st.skipping THEN Append(st.lines, st.pending)
     ELSE st.lines

\* C38: the lines returned do not depend on the chunking: however the stream cut
\* the text into chunks, readLines returns the lines it returns for the same text
\* delivered in one chunk.
C38_SameLinesForEveryChunking ==
  ended => extracted = LinesOfOneChunk(streamed)

\* C38 witness: chunks ended inside the oversized line, directly before and directly
\* after its newline, and inside the final partial line
C38_Witness ==
  /\ ended
  /\ streamed = <<"b", "a", "b", "\n", "a", "b">>
  /\ cuts = {1, 3, 4, 5, 6}
  /\ extracted = << <<"a", "b">> >>

(***************************************************************************)
(* A file whose producers also write lines that are not JSON, records of   *)
(* no known shape and records the parsers throw on, parsed and polled.     *)
(***************************************************************************)
FaultLines(path) ==
  IF SourceOf(path) = "claude-code"
  THEN {ClaudeUser, ClaudeAssistant(Usage(1, 2, 1, 1)), ClaudeMalformed(Usage(1, 1, 1, 1)),
        ClaudeUserMalformed, ClaudeUnknown, GarbageLine}
  ELSE {CodexUserMsg(1000, <<"h", "i">>, <<>>), CodexAgentMsg(1000, <<"o", "k">>),
        CodexNoPayload, CodexUnknown, GarbageLine}

NextFaults ==
  \/ \E p \in Paths : \E l \in FaultLines(p) : TotalLines < MaxFaultLines /\ WriteLine(p, l)
  \/ \E p \in Paths : ParseBegin("c1", p)
  \/ ParseRead("c1")
  \/ ParseFinish("c1")
  \/ \E p \in Paths : \E offset \in 0..MaxFaultLines : Poll(p, offset)

SpecFaults == Init /\ [][NextFaults]_vars

\* what the source's parser makes of one line on its own
ParserResult(source, line) ==
  IF source = "claude-code" THEN parseClaudeEvent(line.obj, ZeroAccumulator)
  ELSE parseEvent(line.obj)

\* the line is a JSON record the parser returns events for
Yields(source, line) ==
  /\ line.kind = "json"
  /\ ~ParserResult(source, line).threw
  /\ ParserResult(source, line).events # <<>>

\* the line is a claude-code user record with a sessionId: the session-start shape
StartsSession(source, line) ==
  source = "claude-code" /\ line.kind = "json" /\ line.obj.type = "user" /\ line.obj.sessionId

\* the lines without those that are not JSON, match no shape or make the parser throw
WithoutBadLines(source, lines) ==
  SelectSeq(lines, LAMBDA l : Yields(source, l) \/ StartsSession(source, l))

C15_ParsersNeverThrow == lastReturn.op \notin {"error", "codex-error"}

(***************************************************************************)
(* The Deduplicator on event lists of every make-up.  An event carries the *)
(* position it had in the input as its identity (the passes work on the    *)
(* event objects in place).                                                *)
(***************************************************************************)
UserEvent(id, ts, text, images) ==
  [kind |-> "user_message", ts |-> ts, text |-> text, images |-> images, id |-> id]

AgentEvent(id, ts, text, phase) ==
  [kind |-> "agent_message", ts |-> ts, text |-> text, phase |-> phase, id |-> id]

DataImage == <<"data:", "image/png;base64,AAA">>

LocalImage == <<"/", "a.png">>

OtherLocalImage == <<"/", "b.png">>

\* 1000 and 2000 are a second apart, 2000 and 5000 exactly 3000 ms, 1000 and 5000 more
DedupTimes == {1000, 2000, 5000}

\* a text without and a text with an <image name=...></image> placeholder
DedupTexts == {<<"h", "i">>, <<"IMG", " ", "h", "i">>}

DedupImages == {<<>>, <<DataImage>>, <<LocalImage, OtherLocalImage>>}

DedupEvents(id) ==
  {UserEvent(id, ts, text, images) :
     ts \in DedupTimes, text \in DedupTexts, images \in DedupImages}
  \cup {UserEvent(id, NaT, <<"h", "i">>, <<>>)}
  \cup {AgentEvent(id, 1000, <<"o", "k">>, ""), AgentEvent(id, 1000, <<"o", "k">>, "commentary")}

\* the parse loop pushes one more event
AddEvent(evt) ==
  /\ dedupOutput.runs = 0
  /\ dedupInput' = Append(dedupInput, evt)
  /\ UNCHANGED <<fsVars, parsedFileCache, call, nextArr, lastReturn, lastAccum, tailVars,
                 accumVars, lineVars, dedupOutput, serveVars>>

\* deduplicateUserMessages(events); deduplicateAgentMessages(events)
Deduplicate ==
  /\ dedupOutput.runs = 0
  /\ dedupOutput' =
       [runs |-> 1, users |-> deduplicateUserMessages(dedupInput),
        agents |-> deduplicateAgentMessages(dedupInput),
        once |-> deduplicateAgentMessages(deduplicateUserMessages(dedupInput)),
        twice |-> <<>>]
  /\ UNCHANGED <<fsVars, parsedFileCache, call, nextArr, lastReturn, lastAccum, tailVars,
                 accumVars, lineVars, dedupInput, serveVars>>

\* the two passes once more, over what they left
DeduplicateAgain ==
  /\ dedupOutput.runs = 1
  /\ dedupOutput' =
       [dedupOutput EXCEPT
          !.runs = 2,
          !.twice = deduplicateAgentMessages(deduplicateUserMessages(dedupOutput.once))]
  /\ UNCHANGED <<fsVars, parsedFileCache, call, nextArr, lastReturn, lastAccum, tailVars,
                 accumVars, lineVars, dedupInput, serveVars>>

NextDedup ==
  \/ \E evt \in DedupEvents(Len(dedupInput) + 1) :
        Len(dedupInput) < MaxDedupEvents /\ AddEvent(evt)
  \/ Deduplicate
  \/ DeduplicateAgain

SpecDedup == InitSeq /\ [][NextDedup]_vars

\* the positions of the user messages among the events handed in
InputUsers == {k \in 1..Len(dedupInput) : dedupInput[k].kind = "user_message"}

\* the event handed in at position id is still there after deduplicateUserMessages
Survives(id) == \E k \in 1..Len(dedupOutput.users) : dedupOutput.users[k].id = id

\* both timestamps parse and are at most 3000 ms apart
Within3000(i, j) ==
  /\ dedupInput[i].ts # NaT
  /\ dedupInput[j].ts # NaT
  /\ dedupInput[i].ts - dedupInput[j].ts <= 3000
  /\ dedupInput[j].ts - dedupInput[i].ts <= 3000

\* C16: the Deduplicator applied to its own output leaves it as it is.
C16_SecondRunIsNoOp ==
  dedupOutput.runs = 2 => dedupOutput.twice = dedupOutput.once

\* C17: of every two user messages of the input that are within 3000 ms of each
\* other, exactly one is left after deduplicateUserMessages.
C17_ExactlyOneOfEachClosePair ==
  dedupOutput.runs >= 1 =>
    \A i \in InputUsers : \A j \in InputUsers :
      (i < j /\ Within3000(i, j)) => (Survives(i) # Survives(j))

\* C18: a user message is removed only if another user message of the input lies
\* within 3000 ms of it.
C18_RemovedOnlyWithinWindow ==
  dedupOutput.runs >= 1 =>
    \A i \in InputUsers :
      ~Survives(i) => \E j \in InputUsers \ {i} : Within3000(i, j)

\* the text of the event handed in at position k has an <image name= placeholder
HasPlaceholder(k) ==
  \E n \in 1..Len(dedupInput[k].text) : dedupInput[k].text[n] \in {"IMG", "OPEN"}

\* no user message of the input lies between positions i and j
NeighbourUsers(i, j) ==
  i # j /\ \A k \in InputUsers : ~(i < k /\ k < j) /\ ~(j < k /\ k < i)

\* C19: a user message is discarded only in favour of a neighbouring one: of an
\* earlier one unless that one alone has the placeholder, of a later one only if
\* the discarded one alone has the placeholder.  Of two user messages that collapse
\* the one left is the later if only the earlier has the placeholder, else the earlier.
C19_PlaceholderFreeCopyKept ==
  dedupOutput.runs >= 1 =>
    /\ \A r \in InputUsers :
         ~Survives(r) =>
           \E k \in InputUsers :
             /\ NeighbourUsers(k, r)
             /\ \/ k < r /\ ~(HasPlaceholder(k) /\ ~HasPlaceholder(r))
                \/ k > r /\ HasPlaceholder(r) /\ ~HasPlaceholder(k)
    /\ \A i \in InputUsers : \A j \in InputUsers :
         (InputUsers = {i, j} /\ i < j /\ Survives(i) # Survives(j)) =>
           IF HasPlaceholder(i) /\ ~HasPlaceholder(j) THEN Survives(j) ELSE Survives(i)

\* C19 witness: the earlier copy has the placeholder, the later has not, and the
\* later is the one left
C19_Witness ==
  /\ dedupOutput.runs = 1
  /\ InputUsers = {1, 2}
  /\ HasPlaceholder(1)
  /\ ~HasPlaceholder(2)
  /\ ~Survives(1)
  /\ Survives(2)

\* the images list starts with a data URI
IsDataUriList(images) == images # <<>> /\ images[1][1] = "data:"

\* the images the claim gives the kept copy
ImagesOfKept(keepImgs, removeImgs) ==
  IF IsDataUriList(removeImgs) /\ ~IsDataUriList(keepImgs) THEN removeImgs
  ELSE IF IsDataUriList(keepImgs) THEN keepImgs
  ELSE IF Len(removeImgs) > Len(keepImgs) THEN removeImgs
  ELSE keepImgs

\* C20: of two user messages that collapse, the one left has the images of the
\* discarded one if those are data URIs and its own are not, else the longer list
\* unless its own are data URIs; local paths among them are rewritten for the
\* image proxy as in every user message.
C20_KeptCopyTakesBetterImages ==
  dedupOutput.runs >= 1 =>
    \A keep \in InputUsers : \A remove \in InputUsers :
      (InputUsers = {keep, remove} /\ Survives(keep) /\ ~Survives(remove)) =>
        LET expected == ImagesOfKept(dedupInput[keep].images, dedupInput[remove].images)
            left == CHOOSE e \in {dedupOutput.users[k] : k \in 1..Len(dedupOutput.users)} :
                      e.id = keep
        IN left.images = [k \in 1..Len(expected) |-> ProxyImage(expected[k])]

\* C20 witness: a copy with the placeholder and no images, and a second later a
\* copy with one data-URI image, collapse to one event with that image
C20_Witness ==
  /\ dedupOutput.runs = 1
  /\ dedupInput = <<UserEvent(1, 1000, <<"IMG", " ", "h", "i">>, <<>>),
                    UserEvent(2, 2000, <<"h", "i">>, <<DataImage>>)>>
  /\ dedupOutput.users = <<UserEvent(2, 2000, <<"h", "i">>, <<DataImage>>)>>

(***************************************************************************)
(* deduplicateUserMessages on user messages whose texts carry placeholders *)
(* of every make-up.                                                       *)
(***************************************************************************)
MaxCleanEvents == 2

\* no tag; a placeholder in front; a placeholder with white space between its tags;
\* a placeholder at the end; a placeholder within the tags of another
CleanTexts ==
  {<<"h", "i">>,
   <<"IMG", " ", "h", "i">>,
   <<"OPEN", " ", "CLOSE", " ", "h", "i">>,
   <<"h", "i", " ", "IMG">>,
   <<"OPEN", "IMG", "CLOSE", " ", "h", "i">>}

\* 1000 and 2000 are a second apart, 9000 is far from both
CleanTimes == {1000, 2000, 9000}

CleanEvents(id) ==
  {UserEvent(id, ts, text, images) :
     ts \in CleanTimes, text \in CleanTexts, images \in DedupImages}
  \cup {AgentEvent(id, 1000, <<"o", "k">>, "")}

NextClean ==
  \/ \E evt \in CleanEvents(Len(dedupInput) + 1) :
        Len(dedupInput) < MaxCleanEvents /\ AddEvent(evt)
  \/ Deduplicate
  \/ DeduplicateAgain

SpecClean == InitSeq /\ [][NextClean]_vars

\* the text holds an <image name=...></image> placeholder: an opening tag, white
\* space if any, a closing tag
ContainsPlaceholder(text) ==
  \E n \in 1..Len(text) :
    \/ text[n] = "IMG"
    \/ /\ text[n] = "OPEN"
       /\ \E m \in (n + 1)..Len(text) :
            text[m] = "CLOSE" /\ \A k \in (n + 1)..(m - 1) : text[k] = " "

\* the image references of the user messages handed in
InputImages ==
  UNION {{dedupInput[k].images[n] : n \in 1..Len(dedupInput[k].images)} :
           k \in InputUsers}

\* "/api/image?path=" + the path with its "/" escaped, for a path "/" + name
ProxyForm(img) == <<"/", "api/image?path=", "%2F", img[2]>>

\* C21: after deduplicateUserMessages no user message left has an
\* <image name=...></image> placeholder in its text, and each of its images is a
\* data URI of the input as it was or the proxy form of a local path of the input.
C21_CleanedTextsAndImages ==
  dedupOutput.runs >= 1 =>
    \A k \in 1..Len(dedupOutput.users) :
      dedupOutput.users[k].kind = "user_message" =>
        /\ ~ContainsPlaceholder(dedupOutput.users[k].text)
        /\ \A n \in 1..Len(dedupOutput.users[k].images) :
             \E img \in InputImages :
               dedupOutput.users[k].images[n] =
                 (IF img[1] = "/" THEN ProxyForm(img) ELSE img)

(***************************************************************************)
(* deduplicateAgentMessages on agent messages of every distance, phase and *)
(* likeness.                                                               *)
(***************************************************************************)
MaxAgentEvents == 3

\* 1000 and 2000 are a second apart, 2000 and 4000 exactly 2000 ms, 1000 and 4000
\* 3000 ms, 2000 and 7000 exactly 5000 ms, 1000 and 7000 more
AgentTimes == {1000, 2000, 4000, 7000}

\* n characters, the last of them c
LongText(n, c) == [k \in 1..n |-> IF k = n THEN c ELSE "x"]

\* a text, and a longer one that starts with it
AgentTexts == {<<"o", "k">>, <<"o", "k", "!">>}

AgentEvents(id) ==
  {AgentEvent(id, ts, text, "") : ts \in AgentTimes, text \in AgentTexts}
  \cup {AgentEvent(id, ts, text, "commentary") : ts \in {1000, 2000}, text \in AgentTexts}
  \cup {AgentEvent(id, 1000, <<"n", "o">>, ""),
        AgentEvent(id, 1000, <<"o", "k">>, "final"),
        AgentEvent(id, NaT, <<"o", "k">>, ""),
        AgentEvent(id, 1000, LongText(80, "a"), ""),
        AgentEvent(id, 1000, LongText(80, "b"), ""),
        AgentEvent(id, 1000, LongText(81, "a"), ""),
        AgentEvent(id, 1000, LongText(81, "b"), ""),
        UserEvent(id, 1000, <<"h", "i">>, <<>>)}

NextAgents ==
  \/ \E evt \in AgentEvents(Len(dedupInput) + 1) :
        Len(dedupInput) < MaxAgentEvents /\ AddEvent(evt)
  \/ Deduplicate

SpecAgents == InitSeq /\ [][NextAgents]_vars

\* the positions of the agent messages among the events handed in
InputAgents == {k \in 1..Len(dedupInput) : dedupInput[k].kind = "agent_message"}

\* the event handed in at position id is still there after deduplicateAgentMessages
SurvivesAgents(id) == \E k \in 1..Len(dedupOutput.agents) : dedupOutput.agents[k].id = id

\* both timestamps parse and are at most 2000 ms apart
Within2000(i, j) ==
  /\ dedupInput[i].ts # NaT
  /\ dedupInput[j].ts # NaT
  /\ dedupInput[i].ts - dedupInput[j].ts <= 2000
  /\ dedupInput[j].ts - dedupInput[i].ts <= 2000

\* the first n characters of a text
FirstChars(text, n) == IF Len(text) <= n THEN text ELSE SubSeq(text, 1, n)

\* text a starts with text b
BeginsWith(a, b) == Len(b) <= Len(a) /\ \A k \in 1..Len(b) : a[k] = b[k]

\* the first 200 characters are equal, or one text starts with the first 80
\* characters of the other
Matches(a, b) ==
  \/ FirstChars(a, 200) = FirstChars(b, 200)
  \/ BeginsWith(a, FirstChars(b, 80))
  \/ BeginsWith(b, FirstChars(a, 80))

\* C22: deduplicateAgentMessages removes an agent message only if another agent
\* message of the input lies within 2000 ms of it and matches it.
C22_RemovedOnlyOnCloseMatch ==
  dedupOutput.runs >= 1 =>
    \A i \in InputAgents :
      ~SurvivesAgents(i) =>
        \E j \in InputAgents \ {i} :
          Within2000(i, j) /\ Matches(dedupInput[i].text, dedupInput[j].text)

\* the agent message handed in at position k has a phase other than "final"
Distinguished(k) == dedupInput[k].phase \notin {"", "final"}

\* C23: of two agent messages that collapse, the one left is the one with a phase
\* other than "final" if only one has such a phase, else the one with the longer
\* text.
C23_PhaseThenLongerText ==
  dedupOutput.runs >= 1 =>
    \A keep \in InputAgents : \A remove \in InputAgents :
      (InputAgents = {keep, remove} /\ SurvivesAgents(keep) /\ ~SurvivesAgents(remove)) =>
        IF Distinguished(keep) # Distinguished(remove) THEN Distinguished(keep)
        ELSE Len(dedupInput[keep].text) >= Len(dedupInput[remove].text)

\* C23 witness: a short message with phase "final" and a longer one without a
\* phase collapse to the longer one
C23_Witness ==
  /\ dedupOutput.runs = 1
  /\ dedupInput = <<AgentEvent(1, 1000, <<"o", "k">>, "final"),
                    AgentEvent(2, 2000, <<"o", "k", "!">>, "")>>
  /\ dedupOutput.agents = <<AgentEvent(2, 2000, <<"o", "k", "!">>, "")>>

\* the events of a list come in the order they had in the input
InInputOrder(events) ==
  \A k \in 1..(Len(events) - 1) : events[k].id < events[k + 1].id

\* every event of the input that is not of the given kind is in the list as it was,
\* and every event of the list came from the input
OnlyKindMissing(events, kind) ==
  /\ \A k \in 1..Len(events) : events[k].id \in 1..Len(dedupInput)
  /\ \A k \in 1..Len(events) :
       events[k].kind # kind => events[k] = dedupInput[events[k].id]
  /\ \A n \in 1..Len(dedupInput) :
       dedupInput[n].kind # kind => \E k \in 1..Len(events) : events[k].id = n

\* C24: what deduplicateUserMessages leaves is the input in its order with only
\* user messages missing, and what deduplicateAgentMessages leaves is the input in
\* its order with only agent messages missing; an event of another kind is left as
\* it was.
C24_PassesKeepOrderAndOtherKinds ==
  dedupOutput.runs >= 1 =>
    /\ InInputOrder(dedupOutput.users)
    /\ OnlyKindMissing(dedupOutput.users, "user_message")
    /\ InInputOrder(dedupOutput.agents)
    /\ OnlyKindMissing(dedupOutput.agents, "agent_message")

\* C24 witness: a user message, an agent message and a copy of the user message:
\* the user pass leaves the first two in their order
C24_Witness ==
  /\ dedupOutput.runs = 1
  /\ Len(dedupInput) = 3
  /\ dedupInput[1].kind = "user_message"
  /\ dedupInput[2].kind = "agent_message"
  /\ dedupInput[3].kind = "user_message"
  /\ Len(dedupOutput.users) = 2
  /\ dedupOutput.users[1].id = 1
  /\ dedupOutput.users[2] = dedupInput[2]

(***************************************************************************)
(* Files of both sources whose records the Deduplicator would collapse or  *)
(* rewrite, parsed and polled.                                             *)
(***************************************************************************)
MaxSourceLines == 2

\* a user record whose text holds an <image name=...></image> placeholder
ClaudeUserTagged ==
  JsonLine(ClaudeObj("user", 1000, TRUE, FALSE, StringContent(<<"IMG", " ", "h", "i">>),
                     NoUsage))

SourceLines(path) ==
  IF SourceOf(path) = "claude-code"
  THEN {ClaudeUser, ClaudeUserTagged, ClaudeAssistant(Usage(1, 2, 1, 1)),
        ClaudeAssistant(Usage(2, 1, 0, 0))}
  ELSE {CodexUserMsg(1000, <<"h", "i">>, <<>>),
        CodexUserMsg(1000, <<"IMG", " ", "h", "i">>, <<LocalImage>>)}

NextSources ==
  \/ \E p \in Paths : \E l \in SourceLines(p) : TotalLines < MaxSourceLines /\ WriteLine(p, l)
  \/ \E p \in Paths : ParseBegin("c1", p)
  \/ ParseRead("c1")
  \/ ParseFinish("c1")
  \/ \E p \in Paths : \E offset \in 0..MaxSourceLines : Poll(p, offset)

SpecSources == Init /\ [][NextSources]_vars

\* what parseClaudeEvent returns for each of the lines, one after the other
RECURSIVE ProducedByParser(_)
ProducedByParser(lines) ==
  IF lines = <<>> THEN <<>>
  ELSE (IF Head(lines).kind = "json"
        THEN parseClaudeEvent(Head(lines).obj, ZeroAccumulator).events ELSE <<>>)
       \o ProducedByParser(Tail(lines))

\* the events without the session_start that parseSessionFile puts in front
WithoutSessionStart(events) == SelectSeq(events, LAMBDA e : e.kind # "session_start")

\* C25: for a claude-code file, a parse and a poll return the events the parser
\* produced for the lines, each as the parser produced it (the totals of the
\* token_usage events aside): none is removed, no text or image list is rewritten.
C25_ClaudeEventsNotDeduplicated ==
  /\ ( /\ lastReturn.op = "parse"
       /\ ~lastReturn.fromCache
       /\ SourceOf(lastReturn.path) = "claude-code" ) =>
       WithoutTotals(WithoutSessionStart(lastReturn.events)) =
         WithoutTotals(ProducedByParser(lastReturn.read))
  /\ ( /\ lastReturn.op = "poll"
       /\ SourceOf(lastReturn.path) = "claude-code" ) =>
       WithoutTotals(lastReturn.events) =
         WithoutTotals(ProducedByParser(
           SubSeq(lastReturn.read, lastReturn.offset + 1, Len(lastReturn.read))))

\* C25 witness: a parse of two user records a second apart or less, the first with
\* a placeholder in its text, returns both user messages, the placeholder still there
C25_Witness ==
  /\ lastReturn.op = "parse"
  /\ lastReturn.read = <<ClaudeUserTagged, ClaudeUser>>
  /\ Len(lastReturn.events) = 3
  /\ lastReturn.events[2].kind = "user_message"
  /\ lastReturn.events[2].text = <<"IMG", " ", "h", "i">>
  /\ lastReturn.events[3].kind = "user_message"

(***************************************************************************)
(* The token_usage event of an assistant record (SpecAccum, SpecSources).  *)
(***************************************************************************)
\* the last record was an assistant record and parseClaudeEvent returned for it
AssistantParsed ==
  /\ lastReturn.op = "event"
  /\ fed # <<>>
  /\ fed[Len(fed)].type = "assistant"

\* the events but the last are the events of the record's content blocks, the last
\* is a token_usage event with the totals the accumulator now holds
TokenUsageClosesEvents ==
  LET n == Len(lastReturn.events)
  IN /\ n >= 1
     /\ lastReturn.events[n].kind = "token_usage"
     /\ \A k \in 1..(n - 1) : lastReturn.events[k].kind # "token_usage"
     /\ SubSeq(lastReturn.events, 1, n - 1) =
          parseAssistantMessage(fed[Len(fed)], fed[Len(fed)].timestamp).events
     /\ lastReturn.events[n].total_input =
          tokenAccum.input + tokenAccum.cacheRead + tokenAccum.cacheCreate
     /\ lastReturn.events[n].cached_input = tokenAccum.cacheRead
     /\ lastReturn.events[n].total_output = tokenAccum.output
     /\ lastReturn.events[n].total_tokens =
          tokenAccum.input + tokenAccum.output + tokenAccum.cacheRead
          + tokenAccum.cacheCreate

\* C26: every assistant record parseClaudeEvent returns for has, after the events of
\* its content blocks, exactly one token_usage event, and that event carries the
\* totals of the accumulator after the record's usage was added.
C26_EveryAssistantEmitsTokenUsage == AssistantParsed => TokenUsageClosesEvents

\* C26 as the code has it: an assistant record with a usage block has, after the
\* events of its content blocks, exactly one token_usage event with the totals of
\* the accumulator after the record's usage was added; an assistant record without
\* a usage block has the events of its content blocks and no token_usage event.
C26_UsageBlockEmitsTokenUsage ==
  AssistantParsed =>
    IF fed[Len(fed)].usage.present THEN TokenUsageClosesEvents
    ELSE lastReturn.events =
           parseAssistantMessage(fed[Len(fed)], fed[Len(fed)].timestamp).events

\* C26 witness: the second assistant record with a usage block: an agent_message,
\* then the token_usage event with the totals of both
C26_Witness ==
  /\ AssistantParsed
  /\ fed = <<ClaudeAssistant(Usage(1, 2, 1, 1)).obj, ClaudeAssistant(Usage(2, 1, 0, 0)).obj>>
  /\ Len(lastReturn.events) = 2
  /\ lastReturn.events[1].kind = "agent_message"
  /\ lastReturn.events[2].kind = "token_usage"
  /\ lastReturn.events[2].total_output = 3
  /\ lastReturn.events[2].total_input = 5

\* the assistant records with a usage block among the lines
UsageRecordsOf(lines) ==
  SelectSeq(RecordsOf(lines), LAMBDA r : r.type = "assistant" /\ r.usage.present)

\* C27: in a parse of a claude-code file, the token_usage event of a record has
\* the record's own input + cache read + cache creation as last_input and its own
\* output as last_output, and its total_input and total_output are those of the
\* token_usage event before it (0 for the first) plus its last_input and last_output.
C27_TotalsGrowByLast ==
  ( /\ lastReturn.op = "parse"
    /\ ~lastReturn.fromCache
    /\ SourceOf(lastReturn.path) = "claude-code" ) =>
    LET tus == TokenUsagesOf(lastReturn.events)
        recs == UsageRecordsOf(lastReturn.read)
    IN /\ Len(tus) = Len(recs)
       /\ \A k \in 1..Len(tus) :
            /\ tus[k].last_input =
                 recs[k].usage.input_tokens + recs[k].usage.cache_read_input_tokens
                 + recs[k].usage.cache_creation_input_tokens
            /\ tus[k].last_output = recs[k].usage.output_tokens
            /\ tus[k].total_input =
                 (IF k = 1 THEN 0 ELSE tus[k - 1].total_input) + tus[k].last_input
            /\ tus[k].total_output =
                 (IF k = 1 THEN 0 ELSE tus[k - 1].total_output) + tus[k].last_output

\* C27 witness: a parse of two assistant records: the second event reports 2 and 1
\* for the record and 5 and 3 in total
C27_Witness ==
  /\ lastReturn.op = "parse"
  /\ ~lastReturn.fromCache
  /\ lastReturn.read = <<ClaudeAssistant(Usage(1, 2, 1, 1)), ClaudeAssistant(Usage(2, 1, 0, 0))>>
  /\ Len(TokenUsagesOf(lastReturn.events)) = 2
  /\ TokenUsagesOf(lastReturn.events)[2].last_input = 2
  /\ TokenUsagesOf(lastReturn.events)[2].last_output = 1
  /\ TokenUsagesOf(lastReturn.events)[2].total_input = 5
  /\ TokenUsagesOf(lastReturn.events)[2].total_output = 3

\* the three records of the accumulation test were parsed with one accumulator
ExampleParsed == lastReturn.op = "event" /\ fed = ExampleRecords

\* C28: after the records with usage {100, 50}, {200, 80} and {50, 20, cache read
\* 10, cache creation 5}, the last token_usage event has total_output = 150 and
\* total_input = 50 + 10 + 5.
C28_ExampleTotalInputIsLatest ==
  ExampleParsed =>
    /\ lastReturn.events[Len(lastReturn.events)].kind = "token_usage"
    /\ lastReturn.events[Len(lastReturn.events)].total_output = 150
    /\ lastReturn.events[Len(lastReturn.events)].total_input = 50 + 10 + 5

\* C28 as the code has it: total_output = 150, last_input = 50 + 10 + 5, and
\* total_input = 100 + 200 + 50 + 10 + 5, the input of all three records.
C28_ExampleTotalsAreCumulative ==
  ExampleParsed =>
    /\ lastReturn.events[Len(lastReturn.events)].kind = "token_usage"
    /\ lastReturn.events[Len(lastReturn.events)].total_output = 150
    /\ lastReturn.events[Len(lastReturn.events)].last_input = 50 + 10 + 5
    /\ lastReturn.events[Len(lastReturn.events)].total_input = 100 + 200 + 50 + 10 + 5

\* C28 witness: the three records parsed, the last event a token_usage event
C28_Witness ==
  /\ ExampleParsed
  /\ Len(lastReturn.events) = 2
  /\ lastReturn.events[2].kind = "token_usage"
  /\ lastReturn.events[2].last_output = 20

(***************************************************************************)
(* Polls at and beyond the end of the file, and polls in its middle        *)
(* (SpecPoll).                                                             *)
(***************************************************************************)
\* C29: a poll at an offset that is the file's line count or more returns no
\* events and the line count the file has, whichever the source.
C29_PollAtEndIsEmpty ==
  [][ ( /\ lastReturn' # lastReturn
        /\ lastReturn'.op = "poll"
        /\ lastReturn'.offset >= Len(readLines(fileLines[lastReturn'.path])) ) =>
      ( /\ lastReturn'.events = <<>>
        /\ lastReturn'.lineCount = Len(readLines(fileLines[lastReturn'.path])) ) ]_vars

\* C29 witness: a poll at offset 3 of a file of two lines returned nothing and 2
C29_Witness ==
  /\ lastReturn.op = "poll"
  /\ Len(lastReturn.read) = 2
  /\ lastReturn.offset = 3
  /\ lastReturn.events = <<>>
  /\ lastReturn.lineCount = 2

\* the lines a poll found at its offset and after it
NewLinesOfPoll == SubSeq(lastReturn.read, lastReturn.offset + 1, Len(lastReturn.read))

\* C30: a poll returns what the lines at its offset and after it yield on their
\* own: for claude-code the events the parser produces for them (the totals of the
\* token_usage events aside), for codex the events of a file that holds only them,
\* deduplicated among themselves.
C30_PollSeesOnlyNewLines ==
  (lastReturn.op = "poll" /\ lastReturn.offset < Len(lastReturn.read)) =>
    IF SourceOf(lastReturn.path) = "claude-code"
    THEN WithoutTotals(lastReturn.events) = WithoutTotals(ProducedByParser(NewLinesOfPoll))
    ELSE lastReturn.events = ParseAll("codex", NewLinesOfPoll, ZeroAccumulator).events

\* C30 witness: a codex file of a user message with an image and a copy of it
\* without, polled at offset 1: the copy is returned, without the image
C30_Witness ==
  /\ lastReturn.op = "poll"
  /\ lastReturn.offset = 1
  /\ lastReturn.read = <<CodexUserItem(1000, <<"h", "i">>, <<<<"data:", "x">>>>),
                         CodexUserMsg(1000, <<"h", "i">>, <<>>)>>
  /\ Len(lastReturn.events) = 1
  /\ lastReturn.events[1].kind = "user_message"
  /\ lastReturn.events[1].images = <<>>

(***************************************************************************)
(* parseEvent on exec_command function calls.                              *)
(***************************************************************************)
NextExec == \E obj \in ExecRecords : ParseCodexRecord(obj)

SpecExec == Init /\ [][NextExec]_vars

\* parseEvent returned for an exec_command record with this command
ExecParsed(cmd) ==
  /\ lastReturn.op = "codex-event"
  /\ lastReturn.read = <<CodexExec(cmd)>>

\* C31: an exec_command whose command is a heredoc write parses to one file_change
\* event with files = [{action: "add", path}] and a patch that has the line
\* "*** Add File: <path>" and after it one line per content line, each the content
\* line with "+" in front; every other exec_command parses to one shell_command
\* event with the command as it was.
C31_HeredocWriteIsFileChange ==
  /\ \A path \in ExecPaths : \A style \in HeredocStyles : \A delim \in DelimiterWords :
       \A content \in HeredocContents : \A blanks \in HeredocBlanks :
         ExecParsed(HeredocWrite(path, style, delim, content, blanks)) =>
           /\ Len(lastReturn.events) = 1
           /\ lastReturn.events[1].kind = "file_change"
           /\ lastReturn.events[1].files = <<[action |-> "add", path |-> path]>>
           /\ Len(lastReturn.events[1].patch) = Len(content) + 3
           /\ lastReturn.events[1].patch[2] = <<"*** Add File: ", path>>
           /\ \A k \in 1..Len(content) :
                lastReturn.events[1].patch[2 + k] = <<"+">> \o content[k]
  /\ \A cmd \in OtherCmds :
       ExecParsed(cmd) =>
         /\ Len(lastReturn.events) = 1
         /\ lastReturn.events[1].kind = "shell_command"
         /\ lastReturn.events[1].cmd = cmd

\* C31 witness: cat > notes.txt <<'EOF' \n hello \n EOF became a file_change whose
\* patch has the line +hello
C31_Witness ==
  /\ ExecParsed(HeredocWrite("notes.txt", "quoted", "EOF", << <<"hello">> >>, <<>>))
  /\ lastReturn.events[1].kind = "file_change"
  /\ lastReturn.events[1].patch[3] = <<"+", "hello">>

(***************************************************************************)
(* parseClaudeEvent on user records with string content.                   *)
(***************************************************************************)
MaxUserRecords == 2

\* a plain text, the empty text, and texts with a tag of the harness in them
UserTexts ==
  {<<"h", "i">>,
   <<>>,
   <<"s", "<system-reminder>", "d", "</system-reminder>", "h">>,
   <<"<task-notification>", "s", "</task-notification>">>,
   <<"<", "system-reminder", ">">>}

\* user records with string content, flagged as tool results or not
UserRecords ==
  {ClaudeObj("user", ts, sessionId, flagged, StringContent(text), NoUsage) :
     ts \in {1000, NaT}, sessionId \in BOOLEAN, flagged \in BOOLEAN, text \in UserTexts}

NextUsers ==
  \/ NewAccumulator
  \/ \E obj \in UserRecords : Len(fed) < MaxUserRecords /\ ParseRecord(obj)

SpecUsers == Init /\ [][NextUsers]_vars

\* parseClaudeEvent returned for a user record with string content
UserStringParsed ==
  /\ lastReturn.op = "event"
  /\ fed # <<>>
  /\ fed[Len(fed)].type = "user"
  /\ fed[Len(fed)].content.k = "string"

\* the record is one the CLI injected: its text has one of the two tags, or it is
\* flagged as a tool result
Suppressed(obj) ==
  \/ \E k \in 1..Len(obj.content.text) :
       obj.content.text[k] \in {"<system-reminder>", "<task-notification>"}
  \/ obj.flagged

\* C32: a user record with string content yields one user_message with that text,
\* and no event at all if the text contains <system-reminder> or
\* <task-notification> or the record is flagged as a tool result.
C32_UserStringYieldsOneOrNone ==
  UserStringParsed =>
    IF Suppressed(fed[Len(fed)]) THEN lastReturn.events = <<>>
    ELSE /\ Len(lastReturn.events) = 1
         /\ lastReturn.events[1].kind = "user_message"
         /\ lastReturn.events[1].text = fed[Len(fed)].content.text
         /\ lastReturn.events[1].ts = fed[Len(fed)].timestamp

\* C32 witness: a record with <task-notification> in its text yielded nothing,
\* after one with a plain text yielded its user_message
C32_Witness ==
  /\ UserStringParsed
  /\ Len(fed) = 2
  /\ ~Suppressed(fed[1])
  /\ ~fed[2].flagged
  /\ fed[2].content.text = <<"<task-notification>", "s", "</task-notification>">>
  /\ lastReturn.events = <<>>

(***************************************************************************)
(* GET /api/session/<refs>: the session route.  parseSessionFile is an     *)
(* async function and the route does not await it: the call runs up to its *)
(* first await (statSync, the cache lookup, the start of readLines) and    *)
(* hands back a promise, whose `events` property is undefined.             *)
(***************************************************************************)
\* the value of `events` in `const { events } = <a promise>`
Undefined == [kind |-> "undefined", ts |-> NaT]

\* the comparator of allEvents.sort: < 0, 0 or > 0
CompareEvents(a, b) ==
  IF a.kind = "session_start" THEN -1
  ELSE IF b.kind = "session_start" THEN 1
  ELSE IF a.ts # NaT /\ b.ts # NaT THEN a.ts - b.ts
  ELSE 0

\* sort leaves a next to b: the last time the two were compared, they were found
\* in this order
LeftAsIs(a, b) == CompareEvents(b, a) >= 0 \/ CompareEvents(a, b) < 0

\* the orders of the elements `rem` of `es` that may follow the element `prev`
RECURSIVE Arrangements(_, _, _)
Arrangements(es, rem, prev) ==
  IF rem = {} THEN {<<>>}
  ELSE UNION {{<<i>> \o t : t \in Arrangements(es, rem \ {i}, i)} :
                i \in {k \in rem : prev = 0 \/ LeftAsIs(es[prev], es[k])}}

\* allEvents.sort(comparator).  undefined elements go to the end and are never
\* handed to the comparator.  The comparator is not a consistent order (two
\* session_start events are each "before" the other, an event without ts equals
\* everything), so the order is the engine's to choose; its insertion sort ends
\* with an arrangement in which every two neighbours were compared and left as
\* they are.
SortOutcomes(allEvents) ==
  LET defined == SelectSeq(allEvents, LAMBDA e : e.kind # "undefined")
      rest == SelectSeq(allEvents, LAMBDA e : e.kind = "undefined")
      n == Len(defined)
  IN {[i \in 1..n |-> defined[f[i]]] \o rest : f \in Arrangements(defined, 1..n, 0)}

\* the filter over the sorted list: every session_start but the first is left out.
\* Reading .kind of undefined throws a TypeError
RECURSIVE FirstSessionStartOnly(_, _)
FirstSessionStartOnly(allEvents, seen) ==
  IF allEvents = <<>> THEN [threw |-> FALSE, events |-> <<>>]
  ELSE IF Head(allEvents).kind = "undefined" THEN [threw |-> TRUE, events |-> <<>>]
  ELSE LET rest == FirstSessionStartOnly(Tail(allEvents),
                                         seen \/ Head(allEvents).kind = "session_start")
       IN IF rest.threw THEN rest
          ELSE IF Head(allEvents).kind = "session_start" /\ seen THEN rest
          ELSE [threw |-> FALSE, events |-> <<Head(allEvents)>> \o rest.events]

\* the refs of a request: one file reference, or two
Requests == {<<p>> : p \in Paths} \cup {r \in Paths \X Paths : r[1] # r[2]}

\* the refs whose file exists (fs.existsSync)
Existing(refs) == SelectSeq(refs, LAMBDA p : fileExists[p])

\* the refs for which parseSessionFile finds no entry with the file's mtime
Missed(refs) ==
  SelectSeq(Existing(refs), LAMBDA p : ~CacheHit(parsedFileCache[p], fileMtime[p]))

\* the calls of parseSessionFile that nobody awaits: each one that misses the cache
\* is left suspended in readLines
RECURSIVE StartCalls(_, _)
StartCalls(calls, paths) ==
  IF paths = <<>> THEN calls
  ELSE LET c == CHOOSE k \in Callers : calls[k].pc = "idle"
       IN StartCalls([calls EXCEPT ![c] = [pc |-> "reading", path |-> Head(paths),
                                            mtime |-> fileMtime[Head(paths)],
                                            lines |-> <<>>]],
                     Tail(paths))

\* the whole handler
SessionRoute(refs) ==
  /\ Len(Missed(refs)) <= Cardinality({c \in Callers : call[c].pc = "idle"})
  /\ nextArr + InFlight + Len(Missed(refs)) <= MaxArrays
  /\ call' = StartCalls(call, Missed(refs))
  /\ LET allEvents == [i \in 1..Len(Existing(refs)) |-> Undefined]
     IN IF Len(allEvents) = 0
        THEN lastReturn' = [NoReturn EXCEPT !.op = "session", !.refs = refs,
                                            !.status = 404]
        ELSE \E sorted \in SortOutcomes(allEvents) :
               LET deduped == FirstSessionStartOnly(sorted, FALSE)
               IN lastReturn' =
                    [NoReturn EXCEPT !.op = "session", !.refs = refs,
                                     !.status = IF deduped.threw THEN 500 ELSE 200,
                                     !.events = deduped.events]
  /\ UNCHANGED <<fsVars, parsedFileCache, nextArr, lastAccum, tailVars, accumVars,
                 lineVars, dedupVars, serveVars>>

\* a session_meta record
CodexSessionMeta ==
  JsonLine(CodexObj("session_meta", 1000, Payload("", "", <<>>, <<>>, "")))

MaxSessionLines == 2

\* what the producers of the session specification append
SessionLines(path) ==
  IF SourceOf(path) = "claude-code"
  THEN {ClaudeUser, ClaudeAssistant(Usage(1, 2, 1, 1))}
  ELSE {CodexSessionMeta, CodexUserMsg(2000, <<"h", "i">>, <<>>)}

NextSession ==
  \/ \E p \in Paths : \E l \in SessionLines(p) :
        TotalLines < MaxSessionLines /\ WriteLine(p, l)
  \/ \E refs \in Requests : SessionRoute(refs)
  \/ \E c \in Callers : ParseRead(c)
  \/ \E c \in Callers : ParseFinish(c)

SpecSession == InitSeq /\ [][NextSession]_vars

\* the events parseSessionFile makes of the files of a request, one file after the
\* other
RECURSIVE MergedEvents(_)
MergedEvents(refs) ==
  IF refs = <<>> THEN <<>>
  ELSE (IF fileExists[Head(refs)]
        THEN ParseAll(SourceOf(Head(refs)), readLines(fileLines[Head(refs)]),
                      createTokenAccumulator).events
        ELSE <<>>) \o MergedEvents(Tail(refs))

SessionStarts(events) == Len(SelectSeq(events, LAMBDA e : e.kind = "session_start"))

\* C33: the list the session route serves for one or more files holds their merged
\* events with only the first session_start kept: exactly one session_start if the
\* files' events have any, and every other event.
C33_OneSessionStartServed ==
  [][(lastReturn'.op = "session" /\ lastReturn' # lastReturn
      /\ SessionStarts(MergedEvents(lastReturn'.refs)) > 0)
     => /\ lastReturn'.status = 200
        /\ SessionStarts(lastReturn'.events) = 1
        /\ Len(lastReturn'.events) =
             Len(MergedEvents(lastReturn'.refs))
               - SessionStarts(MergedEvents(lastReturn'.refs)) + 1]_vars

(***************************************************************************)
(* Producer order.  The record written as line n carries n in its text, in *)
(* its command and in its usage block; its timestamp is absent, or one of  *)
(* two values in any order.                                                *)
(***************************************************************************)
MaxOrderLines == 3

OrderTimes == {NaT, 1000, 2000}

\* what a producer may write as line n of the file
OrderLines(path, n) ==
  IF SourceOf(path) = "claude-code"
  THEN {JsonLine(ClaudeObj("user", ts, TRUE, FALSE, StringContent(<<ToString(n)>>),
                           NoUsage)) : ts \in OrderTimes}
       \cup
       {JsonLine(ClaudeObj("assistant", ts, TRUE, FALSE,
                           ArrayContent(<<Block("text", <<ToString(n)>>, "", "")>>
                                        \o <<Block("tool_use", <<ToString(n)>>, "Bash",
                                                   "c")>>),
                           Usage(1, n, 0, 0))) : ts \in OrderTimes}
  ELSE {CodexUserMsg(ts, <<ToString(n)>>, <<>>) : ts \in OrderTimes}
       \cup {CodexAgentMsg(ts, <<ToString(n)>>) : ts \in OrderTimes}

NextOrder ==
  \/ \E p \in Paths : \E l \in OrderLines(p, Len(fileLines[p]) + 1) :
        TotalLines < MaxOrderLines /\ WriteLine(p, l)
  \/ \E p \in Paths : ParseBegin("c1", p)
  \/ ParseRead("c1")
  \/ ParseFinish("c1")

SpecOrder == Init /\ [][NextOrder]_vars

\* the line an event of the last parse comes from
LineOf(evt) ==
  LET lines == lastReturn.read
      number(tok) == CHOOSE n \in 1..Len(lines) : ToString(n) = tok
  IN IF evt.kind \in {"user_message", "agent_message"} THEN number(evt.text[1])
     ELSE IF evt.kind = "shell_command" THEN number(evt.cmd[1])
     ELSE IF evt.kind = "token_usage" THEN evt.last_output
     ELSE CHOOSE n \in 1..Len(lines) :
            /\ lines[n].obj.type = "user"
            /\ \A k \in 1..(n - 1) : lines[k].obj.type # "user"

\* the kinds of the events a claude-code or Codex record yields, in the order in
\* which its parser pushes them
KindsOfLine(n) ==
  LET lines == lastReturn.read
      obj == lines[n].obj
  IN IF SourceOf(lastReturn.path) = "codex"
     THEN <<obj.payload.type>>
     ELSE IF obj.type = "assistant" THEN <<"agent_message", "shell_command", "token_usage">>
     ELSE IF \A k \in 1..(n - 1) : lines[k].obj.type # "user"
     THEN <<"session_start", "user_message">>
     ELSE <<"user_message">>

\* C34: the events parseSessionFile returns are in line order whatever their ts
\* values are, and the events of one record are in the order in which the parser
\* produced them (the Deduplicator may have taken a Codex event out).
C34_EventsInProducerOrder ==
  (lastReturn.op = "parse" /\ ~lastReturn.fromCache) =>
    LET ev == lastReturn.events IN
    /\ \A i, j \in 1..Len(ev) : i < j => LineOf(ev[i]) <= LineOf(ev[j])
    /\ \A n \in 1..Len(lastReturn.read) :
         LET own == SelectSeq(ev, LAMBDA e : LineOf(e) = n)
         IN \/ [k \in 1..Len(own) |-> own[k].kind] = KindsOfLine(n)
            \* the Deduplicator took the record's event out
            \/ SourceOf(lastReturn.path) = "codex" /\ own = <<>>

\* C34 witness: a parse of three lines whose timestamps run backwards, then are
\* absent, returned the events of an assistant record behind those of the record
\* written before it
C34_Witness ==
  /\ lastReturn.op = "parse"
  /\ Len(lastReturn.read) = 3
  /\ lastReturn.read[1].obj.timestamp = 2000
  /\ lastReturn.read[2].obj.timestamp = 1000
  /\ lastReturn.read[3].obj.timestamp = NaT
  /\ lastReturn.read[2].obj.type = "assistant"
  /\ Len(lastReturn.events) >= 5
  /\ lastReturn.events[5].kind = "token_usage"

(***************************************************************************)
(* GET /api/session-compact/<refs>: the route awaits parseSessionFile for  *)
(* each file in turn, so other requests run while it waits for readLines.  *)
(* allEvents is an array of the request's own (arr = 0) unless it is the   *)
(* very array a cache entry holds (arr = the entry's).                     *)
(***************************************************************************)
\* a plausible slip: the first file's events array is used as it is
ConcatEvents_Alias(allEvents, arr, events) ==
  IF allEvents.events = <<>> THEN [arr |-> arr, events |-> events]
  ELSE [arr |-> 0, events |-> allEvents.events \o events]

\* allEvents = allEvents.concat(events): a new array
ConcatEvents(allEvents, arr, events) == [arr |-> 0, events |-> allEvents.events \o events]

\* what an in-place change of the array `arr` does to the cache: the entry that
\* holds this array sees it
WriteThrough(arr, events) ==
  [p \in Paths |->
     IF parsedFileCache[p].present /\ parsedFileCache[p].arr = arr
     THEN [parsedFileCache[p] EXCEPT !.events = events]
     ELSE parsedFileCache[p]]

\* lines 11-15: the request arrives with its refs, allEvents = []
CompactBegin(refs) ==
  /\ compactReq.pc = "idle"
  /\ compactReq' = [NoRequest EXCEPT !.pc = "next", !.refs = refs]
  /\ UNCHANGED <<fsVars, parsedFileCache, call, nextArr, lastReturn, lastAccum, tailVars,
                 accumVars, lineVars, dedupVars, mounted, offsetRef, inflight, delivered>>

\* line 19: the file of the next ref does not exist
CompactSkip ==
  /\ compactReq.pc = "next"
  /\ compactReq.refs # <<>>
  /\ ~fileExists[Head(compactReq.refs)]
  /\ compactReq' = [compactReq EXCEPT !.refs = Tail(@)]
  /\ UNCHANGED <<fsVars, parsedFileCache, call, nextArr, lastReturn, lastAccum, tailVars,
                 accumVars, lineVars, dedupVars, mounted, offsetRef, inflight, delivered>>

\* lines 20-21: parseSessionFile answers from the cache
CompactHit ==
  /\ compactReq.pc = "next"
  /\ compactReq.refs # <<>>
  /\ LET p == Head(compactReq.refs)
         joined == ConcatEvents([arr |-> compactReq.arr, events |-> compactReq.allEvents],
                                parsedFileCache[p].arr, parsedFileCache[p].events)
     IN /\ fileExists[p]
        /\ CacheHit(parsedFileCache[p], fileMtime[p])
        /\ compactReq' = [compactReq EXCEPT !.refs = Tail(@), !.arr = joined.arr,
                                            !.allEvents = joined.events]
  /\ UNCHANGED <<fsVars, parsedFileCache, call, nextArr, lastReturn, lastAccum, tailVars,
                 accumVars, lineVars, dedupVars, mounted, offsetRef, inflight, delivered>>

\* line 20: parseSessionFile misses the cache and waits for readLines
CompactMiss ==
  /\ compactReq.pc = "next"
  /\ compactReq.refs # <<>>
  /\ fileExists[Head(compactReq.refs)]
  /\ ~CacheHit(parsedFileCache[Head(compactReq.refs)], fileMtime[Head(compactReq.refs)])
  /\ nextArr + InFlight < MaxArrays
  /\ compactReq' = [compactReq EXCEPT !.pc = "reading",
                                      !.mtime = fileMtime[Head(compactReq.refs)]]
  /\ UNCHANGED <<fsVars, parsedFileCache, call, nextArr, lastReturn, lastAccum, tailVars,
                 accumVars, lineVars, dedupVars, mounted, offsetRef, inflight, delivered>>

\* readLines has delivered the file's lines
CompactRead ==
  /\ compactReq.pc = "reading"
  /\ fileExists[Head(compactReq.refs)]
  /\ compactReq' = [compactReq EXCEPT !.pc = "parsing",
                                      !.lines = readLines(fileLines[Head(compactReq.refs)])]
  /\ UNCHANGED <<fsVars, parsedFileCache, call, nextArr, lastReturn, lastAccum, tailVars,
                 accumVars, lineVars, dedupVars, mounted, offsetRef, inflight, delivered>>

\* parseSessionFile parses, stores the entry and returns; lines 20-21 go on
CompactParse ==
  /\ compactReq.pc = "parsing"
  /\ \E done \in {CompleteParse(parsedFileCache[Head(compactReq.refs)],
                                SourceOf(Head(compactReq.refs)), compactReq.mtime,
                                compactReq.lines, nextArr + 1)} :
     \E joined \in {ConcatEvents([arr |-> compactReq.arr,
                                  events |-> compactReq.allEvents],
                                 done.entry.arr, done.entry.events)} :
        /\ parsedFileCache' = [parsedFileCache EXCEPT ![Head(compactReq.refs)] = done.entry]
        /\ lastAccum' = done.accum
        /\ compactReq' = [compactReq EXCEPT !.pc = "next", !.refs = Tail(@),
                                            !.lines = <<>>, !.arr = joined.arr,
                                            !.allEvents = joined.events]
  /\ nextArr' = nextArr + 1
  /\ UNCHANGED <<fsVars, call, lastReturn, tailVars, accumVars, lineVars, dedupVars,
                 mounted, offsetRef, inflight, delivered>>

\* lines 24-47: 404 without events; else the in-place sort and the markdown of the
\* sorted list (toCompactMarkdown reads the events and changes none)
CompactRespond ==
  /\ compactReq.pc = "next"
  /\ compactReq.refs = <<>>
  /\ compactReq' = NoRequest
  /\ IF compactReq.allEvents = <<>>
     THEN /\ lastReturn' = [NoReturn EXCEPT !.op = "compact", !.status = 404]
          /\ UNCHANGED parsedFileCache
     ELSE \E sorted \in SortOutcomes(compactReq.allEvents) :
            /\ parsedFileCache' = WriteThrough(compactReq.arr, sorted)
            /\ lastReturn' = [NoReturn EXCEPT !.op = "compact", !.status = 200,
                                              !.arr = compactReq.arr,
                                              !.events = sorted]
  /\ UNCHANGED <<fsVars, call, nextArr, lastAccum, tailVars, accumVars, lineVars,
                 dedupVars, mounted, offsetRef, inflight, delivered>>

(***************************************************************************)
(* GET /api/search?q=...: every session file is parsed and searched; the   *)
(* route does not await parseSessionFile either, and eventSearchText       *)
(* throws on the undefined it is handed, inside the try of each file.      *)
(***************************************************************************)
\* eventSearchText(events): the texts of the events, or a TypeError
eventSearchText(events) ==
  IF events = Undefined THEN [threw |-> TRUE, text |-> <<>>]
  ELSE [threw |-> FALSE,
        text |-> Flatten([i \in 1..Len(events) |->
                   IF events[i].kind \in {"user_message", "agent_message", "reasoning"}
                   THEN events[i].text
                   ELSE IF events[i].kind = "shell_command" THEN events[i].cmd
                   ELSE <<>>])]

\* the files of the two directories, Codex first
SessionFiles == <<CodexPath, ClaudePath>>

Queries == {<<"h">>, <<"h", "i">>}

SearchRoute(q) ==
  LET files == IF Len(q) < 2 THEN <<>> ELSE Existing(SessionFiles)
      matches == SelectSeq(files, LAMBDA p :
                   /\ ~eventSearchText(Undefined).threw
                   /\ \E k \in 1..Len(eventSearchText(Undefined).text) :
                        eventSearchText(Undefined).text[k] = q[1])
  IN /\ Len(Missed(files)) <= Cardinality({c \in Callers : call[c].pc = "idle"})
     /\ nextArr + InFlight + Len(Missed(files)) <= MaxArrays
     /\ call' = StartCalls(call, Missed(files))
     /\ lastReturn' = [NoReturn EXCEPT !.op = "search", !.status = 200, !.refs = matches]
     /\ UNCHANGED <<fsVars, parsedFileCache, nextArr, lastAccum, tailVars, accumVars,
                    lineVars, dedupVars, serveVars>>

MaxCompactLines == 2

NextCompact ==
  \/ \E p \in Paths : \E l \in SessionLines(p) :
        TotalLines < MaxCompactLines /\ WriteLine(p, l)
  \/ \E refs \in Requests : CompactBegin(refs)
  \/ CompactSkip
  \/ CompactHit
  \/ CompactMiss
  \/ CompactRead
  \/ CompactParse
  \/ CompactRespond
  \/ \E refs \in Requests : InFlight = 0 /\ SessionRoute(refs)
  \/ \E q \in Queries : InFlight = 0 /\ SearchRoute(q)
  \/ \E c \in Callers : ParseRead(c)
  \/ \E c \in Callers : ParseFinish(c)

SpecCompact == Init /\ [][NextCompact]_vars

\* C35: an events array that a cache entry holds keeps its length, its order and
\* its events' field values for as long as the entry holds it, whatever parses
\* and session, compact-export and search requests run.
C35_CachedArrayNeverMutated ==
  [][\A p \in Paths :
       (/\ parsedFileCache[p].present
        /\ parsedFileCache'[p].present
        /\ parsedFileCache'[p].arr = parsedFileCache[p].arr)
       => parsedFileCache'[p].events = parsedFileCache[p].events]_vars

\* C35 witness: the compact route answered with the session_start in front, and the
\* cached array it took the events from still has it behind the user message
C35_Witness ==
  /\ lastReturn.op = "compact"
  /\ lastReturn.status = 200
  /\ Len(lastReturn.events) = 2
  /\ lastReturn.events[1].kind = "session_start"
  /\ parsedFileCache[CodexPath].present
  /\ Len(parsedFileCache[CodexPath].events) = 2
  /\ parsedFileCache[CodexPath].events[1].kind = "user_message"
  /\ parsedFileCache[CodexPath].events[2].kind = "session_start"

(***************************************************************************)
(* Tailing a file whose producer is in the middle of a line.  The producer *)
(* writes a record's text in one piece, newline included, or in two: first *)
(* the beginning of the text, later the rest and the newline.  readLines   *)
(* hands the unfinished text back as the file's last line; it is not JSON. *)
(***************************************************************************)
PartialLine(obj) == [kind |-> "partial", obj |-> obj]

\* the producer writes the beginning of a record
WritePartial(path, line) ==
  /\ fileExists[path]
  /\ fileLines' = [fileLines EXCEPT ![path] = Append(@, PartialLine(line.obj))]
  /\ fileMtime' = [fileMtime EXCEPT ![path] = @ + 1]
  /\ UNCHANGED <<fileExists, parsedFileCache, call, nextArr, lastReturn, lastAccum,
                 tailVars, accumVars, lineVars, dedupVars, serveVars>>

\* the producer writes the rest of the record and the newline
CompleteLine(path) ==
  /\ fileExists[path]
  /\ \E n \in 1..Len(fileLines[path]) : fileLines[path][n].kind = "partial"
  /\ fileLines' = [fileLines EXCEPT
                     ![path][Len(fileLines[path])] = JsonLine(@.obj)]
  /\ fileMtime' = [fileMtime EXCEPT ![path] = @ + 1]
  /\ UNCHANGED <<fileExists, parsedFileCache, call, nextArr, lastReturn, lastAccum,
                 tailVars, accumVars, lineVars, dedupVars, serveVars>>

\* the file's last line has its newline
EndsWithNewline(path) ==
  \A n \in 1..Len(fileLines[path]) : fileLines[path][n].kind # "partial"

MaxPartialLines == 3

\* what the producer writes as line n: a record that yields one event, with n in
\* its text
PartialLines(path, n) ==
  IF SourceOf(path) = "claude-code"
  THEN {JsonLine(ClaudeObj("user", ts, TRUE, FALSE, StringContent(<<ToString(n)>>),
                           NoUsage)) : ts \in {1000, 2000}}
  ELSE {CodexAgentMsg(1000, <<ToString(n)>>),
        JsonLine(CodexObj("event_msg", 1000,
                          Payload("agent_reasoning", "", <<ToString(n)>>, <<>>, "")))}

NextTail ==
  \/ \E p \in Paths : \E l \in PartialLines(p, Len(fileLines[p]) + 1) :
        /\ Len(fileLines[p]) < MaxPartialLines
        /\ EndsWithNewline(p)
        /\ WriteLine(p, l)
  \/ \E p \in Paths : \E l \in PartialLines(p, Len(fileLines[p]) + 1) :
        /\ Len(fileLines[p]) < MaxPartialLines
        /\ EndsWithNewline(p)
        /\ WritePartial(p, l)
  \/ \E p \in Paths : CompleteLine(p)
  \/ \E p \in Paths : TailPoll(p)

SpecTail == Init /\ [][NextTail]_vars

\* how many of the events the tailing client has received come from line n
ReturnedOf(n) ==
  Len(SelectSeq(tailEvents, LAMBDA e : e.text = <<ToString(n)>>))

\* C36: once the tailing client has reached the end of the file, the event of
\* every line that is complete by then, a line that an earlier poll saw without
\* its newline included, was returned by exactly one poll.
C36_EveryCompleteLineReturnedOnce ==
  \A p \in Paths :
    (fileExists[p] /\ tailOffset = Len(readLines(fileLines[p]))) =>
      \A n \in 1..Len(fileLines[p]) :
        fileLines[p][n].kind = "json" => ReturnedOf(n) = 1

(***************************************************************************)
(* useSessionPoll(file, onNewEvents): the effect sends one request for the *)
(* end-of-file offset and starts the interval timer; every tick sends a    *)
(* poll with the offset stored at that moment, whether or not an earlier   *)
(* request is still unanswered; the responses come back in any order.      *)
(***************************************************************************)
MaxInFlight == 2

MaxHookLines == 2

\* a fetch on its way: its offset parameter and, once the route has run, its answer
Fetch(path, init, offset) ==
  [path |-> path, init |-> init, offset |-> offset, served |-> FALSE, events |-> <<>>,
   total |-> 0]

\* lines 18-28: the effect runs: fetch(...?offset=999999)
Mount(path) ==
  /\ ~mounted
  /\ fileExists[path]
  /\ mounted' = TRUE
  /\ inflight' = <<Fetch(path, TRUE, 999999)>>
  /\ UNCHANGED <<fsVars, parsedFileCache, call, nextArr, lastReturn, lastAccum, tailVars,
                 accumVars, lineVars, dedupVars, compactReq, offsetRef, delivered>>

\* lines 30-35: the timer fires: fetch(...?offset=${offsetRef.current})
Tick(path) ==
  /\ mounted
  /\ fileExists[path]
  /\ Len(inflight) < MaxInFlight
  /\ inflight' = Append(inflight, Fetch(path, FALSE, offsetRef))
  /\ UNCHANGED <<fsVars, parsedFileCache, call, nextArr, lastReturn, lastAccum, tailVars,
                 accumVars, lineVars, dedupVars, compactReq, mounted, offsetRef,
                 delivered>>

\* the session-poll route answers the fetch i from the file as it is now
ServeFetch(i) ==
  /\ i \in 1..Len(inflight)
  /\ ~inflight[i].served
  /\ fileExists[inflight[i].path]
  /\ \E res \in {PollFromOffset(SourceOf(inflight[i].path),
                                readLines(fileLines[inflight[i].path]),
                                inflight[i].offset, createTokenAccumulator)} :
       inflight' = [inflight EXCEPT ![i].served = TRUE, ![i].events = res.events,
                                    ![i].total = res.total]
  /\ UNCHANGED <<fsVars, parsedFileCache, call, nextArr, lastReturn, lastAccum, tailVars,
                 accumVars, lineVars, dedupVars, compactReq, mounted, offsetRef,
                 delivered>>

\* lines 24-27 and 36-40: the answer of the fetch i arrives
Receive(i) ==
  /\ i \in 1..Len(inflight)
  /\ inflight[i].served
  /\ inflight' = SubSeq(inflight, 1, i - 1) \o SubSeq(inflight, i + 1, Len(inflight))
  /\ IF inflight[i].init
     THEN /\ offsetRef' = inflight[i].total
          /\ UNCHANGED delivered
     ELSE IF Len(inflight[i].events) > 0
     THEN /\ offsetRef' = inflight[i].total
          /\ delivered' = delivered \o inflight[i].events
     ELSE UNCHANGED <<offsetRef, delivered>>
  /\ UNCHANGED <<fsVars, parsedFileCache, call, nextArr, lastReturn, lastAccum, tailVars,
                 accumVars, lineVars, dedupVars, compactReq, mounted>>

NextHook ==
  \/ \E p \in Paths : \E l \in PartialLines(p, Len(fileLines[p]) + 1) :
        Len(fileLines[p]) < MaxHookLines /\ WriteLine(p, l)
  \/ \E p \in Paths : Mount(p)
  \/ \E p \in Paths : Tick(p)
  \/ \E i \in 1..MaxInFlight : ServeFetch(i)
  \/ \E i \in 1..MaxInFlight : Receive(i)

SpecHook == Init /\ [][NextHook]_vars

\* how many of the events handed to onNewEvents come from line n
DeliveredOf(events, n) == Len(SelectSeq(events, LAMBDA e : e.text = <<ToString(n)>>))

\* C37: whatever the order of the end-of-file request, the polls and their
\* answers, no line's event is handed to onNewEvents twice and the stored offset
\* never goes down.
C37_AtMostOnceAndOffsetForward ==
  [][/\ offsetRef' >= offsetRef
     /\ \A n \in 1..MaxHookLines : DeliveredOf(delivered', n) <= 1]_vars

(***************************************************************************)
(* The line count of a parse and the total of a poll, over files that hold *)
(* every sort of line: records that yield events, records that yield none, *)
(* text that is not JSON, empty lines and lines over the ceiling.          *)
(***************************************************************************)
MaxCountLines == 3

\* what the producers of the count specification append
CountLines(path) ==
  IF SourceOf(path) = "claude-code"
  THEN {ClaudeUser, ClaudeUnknown, GarbageLine, EmptyLine, OversizedLine}
  ELSE {CodexAgentMsg(1000, <<"o", "k">>), CodexUnknown, GarbageLine, EmptyLine,
        OversizedLine}

NextCount ==
  \/ \E p \in Paths : \E l \in CountLines(p) :
       TotalLines < MaxCountLines /\ InFlight = 0 /\ WriteLine(p, l)
  \/ \E p \in Paths : ParseBegin("c1", p)
  \/ ParseRead("c1")
  \/ ParseFinish("c1")
  \/ \E p \in Paths : ParseFromCache("c1", p)
  \/ \E p \in Paths : \E offset \in 0..MaxCountLines : Poll(p, offset)

SpecCount == Init /\ [][NextCount]_vars

\* how many lines of a file are neither empty nor over the ceiling
KeptLines(content) ==
  Cardinality({n \in 1..Len(content) : content[n].kind \notin {"empty", "oversized"}})

\* the file is as it was when the cached parse of it was made
ParsedAsItIs(path) == CacheHit(parsedFileCache[path], fileMtime[path])

\* C39: a poll of a file, at whatever offset, returns as total the lineCount that
\* the parse of the same content returned, and a parse or a poll returns the number
\* of the file's lines that are neither empty nor over the ceiling: lines that are
\* not JSON and records that yield no event are counted.
C39_TotalIsLineCountIsKeptLines ==
  [][LET ret == lastReturn'
     IN /\ (ret # lastReturn /\ ret.op = "poll") =>
             /\ ret.lineCount = KeptLines(fileLines[ret.path])
             /\ ParsedAsItIs(ret.path) =>
                  ret.lineCount = parsedFileCache[ret.path].lineCount
        /\ (/\ ret # lastReturn /\ ret.op = "parse"
            /\ CacheHit(parsedFileCache'[ret.path], fileMtime[ret.path])) =>
             ret.lineCount = KeptLines(fileLines[ret.path])]_vars

\* C39 witness: a file of an oversized line, a line that is not JSON and a record
\* that yields no event was parsed and then polled: both returned 2
C39_Witness ==
  /\ lastReturn.op = "poll"
  /\ lastReturn.path = CodexPath
  /\ fileLines[CodexPath] = <<OversizedLine, GarbageLine, CodexUnknown>>
  /\ ParsedAsItIs(CodexPath)
  /\ parsedFileCache[CodexPath].lineCount = 2
  /\ lastReturn.lineCount = 2
  /\ lastReturn.events = <<>>

====
